---- MODULE Spec2Model ----
(***************************************************************************)
(* Environment wrappers of tf_agents/environments/wrappers.py, modelled as *)
(* state machines over a wrapped Python environment.                       *)
(*                                                                         *)
(* A wrapper method is an operator from the wrapper's fields, the wrapped  *)
(* environment and the call's arguments to the new fields, the new         *)
(* environment and the returned TimeStep.  The wrapped environment is a    *)
(* py_environment: what it answers to a call (step type, reward, discount, *)
(* observation) is its own business and is drawn from small sets; it keeps *)
(* a log of the calls made on it, which is how the properties see what a   *)
(* wrapper did to it.                                                      *)
(*                                                                         *)
(* Further down: TFEnvironmentMock of tf_environment_test.py, and the      *)
(* operations of PPOAgent that ppo_agent_test.py exercises.                *)
(***************************************************************************)
EXTENDS Integers, Sequences, FiniteSets, TLC

VARIABLES
    env,      \* the wrapped environment (the object every wrapper holds in _env)
    envEnds,  \* whether the wrapped environment returns LAST by itself
    tl,       \* TimeLimit: [duration, step]
    rs,       \* RunStats: [episodes, resets, episode_steps, total_steps]
    limited,  \* RunStats wraps TimeLimit(env, duration) rather than env
    last,     \* the last call made on the outermost wrapper and its result
    hist,     \* step types returned by step() since the last reset() call
    seen,     \* counts of what the outermost wrapper has returned so far
    calls,    \* number of calls made so far on the outermost wrapper
    wrapper,  \* the fields of the other wrappers, set by their constructors
    input,    \* the arguments and the environment's answers of the calls
    direct    \* a second environment, called directly, and its last result

vars == <<env, envEnds, tl, rs, limited, last, hist, seen, calls, wrapper, input, direct>>

-----------------------------------------------------------------------------
(* Bounds of the model. *)

MaxCalls == 7
MaxDuration == 3
MaxReward == 1
MaxObs == 1
MaxAction == 1
MaxTimes == 3
MaxRepeatCalls == 2
MaxDim == 2
MaxBound == 1
MaxWrapCalls == 1
MaxFlattenCalls == 2
MaxNumActions == 3
BatchSize == 2
MaxMockCalls == 5
MaxInitialState == 2
MaxEpochs == 5
MaxTrainCalls == 4
MaxKlCalls == 3
MaxSteps == 2
MaxBatchSteps == 4
MaxGraphRuns == 3

-----------------------------------------------------------------------------
(* ts.StepType and ts.TimeStep. *)

FIRST == 0
MID == 1
LAST == 2

\* self._step = None
NoStep == -1

StepTypes == {FIRST, MID, LAST}
Rewards == 0..MaxReward
Discounts == {0, 1}
Observations == 0..MaxObs
Actions == 0..MaxAction

TimeStep(step_type, reward, discount, observation) ==
    [step_type |-> step_type, reward |-> reward,
     discount |-> discount, observation |-> observation]

is_first(ts) == ts.step_type = FIRST
is_last(ts) == ts.step_type = LAST

NoTimeStep == TimeStep(NoStep, 0, 0, 0)

-----------------------------------------------------------------------------
(* The wrapped environment.  phase is "fresh" before the first reset,      *)
(* "running" inside an episode and "ended" after it returned LAST; since   *)
(* counts the step calls made on it since its last reset; log lists the    *)
(* calls made on it during the current call of the outermost wrapper.      *)
(* An answer c is what the environment decides by itself: the step type of *)
(* a transition (MID or LAST), the reward, the discount, the observation.  *)

Answers(ends) ==
    [step_type : IF ends THEN {MID, LAST} ELSE {MID},
     reward : Rewards, discount : Discounts, observation : Observations]

\* reset() takes from an answer its observation alone.
ResetAnswers == {c \in Answers(FALSE) : c.reward = 0 /\ c.discount = 1}

\* TimeLimit and RunStats read the step type of a time step and nothing else
\* of it, so under them the discount and the observation are held fixed.
PlainAnswers(ends) == {c \in Answers(ends) : c.discount = 1 /\ c.observation = 0}

NewEnv == [phase |-> "fresh", since |-> 0, log |-> <<>>]

Called(e) == [e EXCEPT !.log = <<>>]

Logged(e, call, arg, ts) ==
    [e EXCEPT !.log = Append(@, [call |-> call, arg |-> arg, ts |-> ts])]

EnvReset(e, c) ==
    LET ts == TimeStep(FIRST, 0, 1, c.observation)
    IN  [env |-> [Logged(e, "reset", 0, ts) EXCEPT !.phase = "running", !.since = 0],
         ts |-> ts]

EnvStep(e, action, c) ==
    IF e.phase # "running"
    THEN \* a step before the first reset or after LAST starts a new episode
         LET ts == TimeStep(FIRST, 0, 1, c.observation)
         IN  [env |-> [Logged(e, "step", action, ts) EXCEPT
                           !.phase = "running", !.since = @ + 1],
              ts |-> ts]
    ELSE LET ts == TimeStep(c.step_type, c.reward, c.discount, c.observation)
         IN  [env |-> [Logged(e, "step", action, ts) EXCEPT
                           !.phase = IF c.step_type = LAST THEN "ended" ELSE "running",
                           !.since = @ + 1],
              ts |-> ts]

\* The specs and the rendering of an environment constructed with them.
EnvWithSpecs(e, observation_spec, action_spec) ==
    [phase |-> e.phase, since |-> e.since, log |-> e.log,
     observation_spec |-> observation_spec, action_spec |-> action_spec]

EnvObservationSpec(e) ==
    [env |-> Logged(e, "observation_spec", 0, NoTimeStep), result |-> e.observation_spec]

EnvActionSpec(e) ==
    [env |-> Logged(e, "action_spec", 0, NoTimeStep), result |-> e.action_spec]

EnvRender(e, mode) ==
    [env |-> Logged(e, "render", mode, NoTimeStep),
     result |-> [mode |-> mode, phase |-> e.phase, since |-> e.since]]

-----------------------------------------------------------------------------
(* PyEnvironmentBaseWrapper *)

PyEnvironmentBaseWrapper_reset(e, c) == EnvReset(e, c)

PyEnvironmentBaseWrapper_step_reset(e, action, c) == EnvReset(e, c)

PyEnvironmentBaseWrapper_step(e, action, c) == EnvStep(e, action, c)

PyEnvironmentBaseWrapper_observation_spec(e) == EnvObservationSpec(e)

PyEnvironmentBaseWrapper_action_spec(e) == EnvActionSpec(e)

PyEnvironmentBaseWrapper_render(e, mode) == EnvRender(e, mode)

PyEnvironmentBaseWrapper_wrapped_env(e) == [env |-> e, result |-> e]

-----------------------------------------------------------------------------
(* TimeLimit *)

NewTimeLimit(duration) == [duration |-> duration, step |-> NoStep]

TimeLimit_reset(self, e, c) ==
    LET r == EnvReset(e, c)
    IN  [self |-> [self EXCEPT !.step = 0], env |-> r.env, ts |-> r.ts]

TimeLimit_step_late(self, e, action, c) ==
    IF self.step = NoStep
    THEN TimeLimit_reset(self, e, c)
    ELSE LET r == EnvStep(e, action, c)
             n == self.step + 1
             ts == IF n > self.duration
                   THEN [r.ts EXCEPT !.step_type = LAST]
                   ELSE r.ts
         IN  [self |-> [self EXCEPT !.step = IF is_last(ts) THEN NoStep ELSE n],
              env |-> r.env, ts |-> ts]

TimeLimit_step(self, e, action, c) ==
    IF self.step = NoStep
    THEN TimeLimit_reset(self, e, c)
    ELSE LET r == EnvStep(e, action, c)
             n == self.step + 1
             ts == IF n >= self.duration
                   THEN [r.ts EXCEPT !.step_type = LAST]
                   ELSE r.ts
         IN  [self |-> [self EXCEPT !.step = IF is_last(ts) THEN NoStep ELSE n],
              env |-> r.env, ts |-> ts]

-----------------------------------------------------------------------------
(* What the driver of the outermost wrapper keeps track of. *)

NoCall == [method |-> "none", arg |-> 0, ts |-> NoTimeStep]

NoSeen == [first |-> 0, last |-> 0, resetCalls |-> 0, stepFirst |-> 0]

Count(s, method, ts) ==
    [first |-> s.first + (IF is_first(ts) THEN 1 ELSE 0),
     last |-> s.last + (IF method = "step" /\ is_last(ts) THEN 1 ELSE 0),
     resetCalls |-> s.resetCalls + (IF method = "reset" THEN 1 ELSE 0),
     stepFirst |-> s.stepFirst + (IF method = "step" /\ is_first(ts) THEN 1 ELSE 0)]

NoStats == [episodes |-> 0, resets |-> 0, episode_steps |-> 0, total_steps |-> 0]

\* The variables a specification does not use.
Unused == [unused |-> TRUE]

-----------------------------------------------------------------------------
(* A TimeLimit over the environment, driven by reset() and step(action).   *)

InitLimit ==
    /\ env = NewEnv
    /\ envEnds \in BOOLEAN
    /\ \E d \in 1..MaxDuration : tl = NewTimeLimit(d)
    /\ rs = NoStats
    /\ limited = TRUE
    /\ last = NoCall
    /\ hist = <<>>
    /\ seen = NoSeen
    /\ calls = 0
    /\ wrapper = Unused
    /\ input = Unused
    /\ direct = Unused

LimitReset ==
    /\ calls < MaxCalls
    /\ \E c \in ResetAnswers :
         LET r == TimeLimit_reset(tl, Called(env), c)
         IN  /\ tl' = r.self
             /\ env' = r.env
             /\ last' = [method |-> "reset", arg |-> 0, ts |-> r.ts]
             /\ hist' = <<>>
             /\ seen' = Count(seen, "reset", r.ts)
    /\ calls' = calls + 1
    /\ UNCHANGED <<envEnds, rs, limited, wrapper, input, direct>>

LimitStep ==
    /\ calls < MaxCalls
    /\ \E a \in Actions, c \in PlainAnswers(envEnds) :
         LET r == TimeLimit_step(tl, Called(env), a, c)
         IN  /\ tl' = r.self
             /\ env' = r.env
             /\ last' = [method |-> "step", arg |-> a, ts |-> r.ts]
             /\ hist' = Append(hist, r.ts.step_type)
             /\ seen' = Count(seen, "step", r.ts)
    /\ calls' = calls + 1
    /\ UNCHANGED <<envEnds, rs, limited, wrapper, input, direct>>

NextLimit == LimitReset \/ LimitStep

SpecLimit == InitLimit /\ [][NextLimit]_vars

\* C1: after reset(), when the first duration-1 step() calls return non-LAST
\* time steps the duration-th step() call returns LAST, and the wrapped
\* environment is never stepped more than duration times since its last reset.
C1_TimeLimitEnds ==
    /\ (/\ seen.resetCalls > 0
        /\ Len(hist) >= tl.duration
        /\ \A i \in 1..(tl.duration - 1) : hist[i] # LAST)
       => hist[tl.duration] = LAST
    /\ env.since <= tl.duration

C1_Witness ==
    /\ seen.resetCalls > 0
    /\ tl.duration = 3
    /\ Len(hist) = 3
    /\ hist[1] = MID /\ hist[2] = MID /\ hist[3] = LAST
    /\ last.method = "step"
    /\ env.since = 3
    /\ env.phase = "running"

-----------------------------------------------------------------------------
(* RunStats.  The environment it wraps is the environment itself or a      *)
(* TimeLimit over it (lim): Inner_reset and Inner_step are self._env.reset *)
(* and self._env.step of the wrapper.                                      *)

Inner_reset(lim, t, e, c) ==
    IF lim
    THEN LET r == TimeLimit_reset(t, e, c)
         IN  [tl |-> r.self, env |-> r.env, ts |-> r.ts]
    ELSE LET r == EnvReset(e, c)
         IN  [tl |-> t, env |-> r.env, ts |-> r.ts]

Inner_step(lim, t, e, action, c) ==
    IF lim
    THEN LET r == TimeLimit_step(t, e, action, c)
         IN  [tl |-> r.self, env |-> r.env, ts |-> r.ts]
    ELSE LET r == EnvStep(e, action, c)
         IN  [tl |-> t, env |-> r.env, ts |-> r.ts]

RunStats_reset_abandoned(self, lim, t, e, c) ==
    LET r == Inner_reset(lim, t, e, c)
    IN  [self |-> [self EXCEPT !.resets = @ + 1,
                               !.episodes = IF self.episode_steps > 0 THEN @ + 1 ELSE @,
                               !.episode_steps = 0],
         tl |-> r.tl, env |-> r.env, ts |-> r.ts]

RunStats_reset(self, lim, t, e, c) ==
    LET r == Inner_reset(lim, t, e, c)
    IN  [self |-> [self EXCEPT !.resets = @ + 1, !.episode_steps = 0],
         tl |-> r.tl, env |-> r.env, ts |-> r.ts]

RunStats_step_nofirst(self, lim, t, e, action, c) ==
    LET r == Inner_step(lim, t, e, action, c)
        s1 == [self EXCEPT !.total_steps = @ + 1, !.episode_steps = @ + 1]
        s2 == IF is_last(r.ts) THEN [s1 EXCEPT !.episodes = @ + 1] ELSE s1
    IN  [self |-> s2, tl |-> r.tl, env |-> r.env, ts |-> r.ts]

RunStats_step_keepsteps(self, lim, t, e, action, c) ==
    LET r == Inner_step(lim, t, e, action, c)
        s1 == IF is_first(r.ts)
              THEN [self EXCEPT !.resets = @ + 1]
              ELSE [self EXCEPT !.total_steps = @ + 1, !.episode_steps = @ + 1]
        s2 == IF is_last(r.ts) THEN [s1 EXCEPT !.episodes = @ + 1] ELSE s1
    IN  [self |-> s2, tl |-> r.tl, env |-> r.env, ts |-> r.ts]

RunStats_step(self, lim, t, e, action, c) ==
    LET r == Inner_step(lim, t, e, action, c)
        s1 == IF is_first(r.ts)
              THEN [self EXCEPT !.resets = @ + 1, !.episode_steps = 0]
              ELSE [self EXCEPT !.total_steps = @ + 1, !.episode_steps = @ + 1]
        s2 == IF is_last(r.ts) THEN [s1 EXCEPT !.episodes = @ + 1] ELSE s1
    IN  [self |-> s2, tl |-> r.tl, env |-> r.env, ts |-> r.ts]

-----------------------------------------------------------------------------
(* A RunStats over the environment or over a TimeLimit of it.              *)

InitStats ==
    /\ env = NewEnv
    /\ envEnds \in BOOLEAN
    /\ limited \in BOOLEAN
    /\ \E d \in 1..MaxDuration : /\ tl = NewTimeLimit(d)
                                 /\ (~limited => d = 1)
    /\ rs = NoStats
    /\ last = NoCall
    /\ hist = <<>>
    /\ seen = NoSeen
    /\ calls = 0
    /\ wrapper = Unused
    /\ input = Unused
    /\ direct = Unused

StatsReset ==
    /\ calls < MaxCalls
    /\ \E c \in ResetAnswers :
         LET r == RunStats_reset(rs, limited, tl, Called(env), c)
         IN  /\ rs' = r.self
             /\ tl' = r.tl
             /\ env' = r.env
             /\ last' = [method |-> "reset", arg |-> 0, ts |-> r.ts]
             /\ seen' = Count(seen, "reset", r.ts)
    /\ calls' = calls + 1
    /\ UNCHANGED <<envEnds, limited, hist, wrapper, input, direct>>

StatsStep ==
    /\ calls < MaxCalls
    /\ \E a \in Actions, c \in PlainAnswers(envEnds) :
         LET r == RunStats_step(rs, limited, tl, Called(env), a, c)
         IN  /\ rs' = r.self
             /\ tl' = r.tl
             /\ env' = r.env
             /\ last' = [method |-> "step", arg |-> a, ts |-> r.ts]
             /\ seen' = Count(seen, "step", r.ts)
    /\ calls' = calls + 1
    /\ UNCHANGED <<envEnds, limited, hist, wrapper, input, direct>>

\* The properties episodes, episode_steps, total_steps and resets are read.
StatsRead ==
    /\ calls < MaxCalls
    /\ last' = [method |-> "read", arg |-> 0, ts |-> NoTimeStep]
    /\ calls' = calls + 1
    /\ UNCHANGED <<env, envEnds, tl, rs, limited, hist, seen, wrapper, input, direct>>

NextStats == StatsReset \/ StatsStep \/ StatsRead

SpecStats == InitStats /\ [][NextStats]_vars

\* C2: episodes equals the number of step() calls that returned a LAST time
\* step; a reset() before LAST was returned counts no episode.
C2_EpisodesCountLast == rs.episodes = seen.last

C2_Witness ==
    /\ rs.episodes = 1
    /\ seen.last = 1
    /\ seen.resetCalls = 3
    /\ rs.total_steps = 3
    /\ last.method = "reset"

\* C3: resets equals the number of FIRST time steps returned through the
\* wrapper: one per reset() call and one per step() call that returned FIRST.
C3_ResetsCountFirst ==
    /\ rs.resets = seen.first
    /\ rs.resets = seen.resetCalls + seen.stepFirst

C3_Witness ==
    /\ rs.resets = 3
    /\ seen.resetCalls = 1
    /\ seen.stepFirst = 2
    /\ last.method = "read"

\* C5: over a TimeLimit of an environment that never returns LAST by itself,
\* every step() call at which the TimeLimit returns LAST adds exactly 1 to
\* episodes, and episode_steps equals the duration at that moment.
C5_TimeLimitEpisodesCounted ==
    [][(/\ limited
        /\ ~envEnds
        /\ last'.method = "step"
        /\ is_last(last'.ts))
       => (/\ rs'.episodes = rs.episodes + 1
           /\ rs'.episode_steps = tl.duration)]_vars

C5_Witness ==
    /\ limited
    /\ ~envEnds
    /\ tl.duration = 2
    /\ last.method = "step"
    /\ is_last(last.ts)
    /\ rs.episodes = 2
    /\ rs.episode_steps = 2
    /\ rs.resets = 2
    /\ seen.resetCalls = 1

-----------------------------------------------------------------------------
(* ActionRepeat.  cs[i] is the environment's answer to the i-th step call  *)
(* of one step(action) of the wrapper.                                     *)

NewActionRepeat(times) == [times |-> times]

RECURSIVE Repeat_nobreak(_, _, _, _, _, _)
Repeat_nobreak(i, times, e, action, cs, total_reward) ==
    LET r == EnvStep(e, action, cs[i])
        total == total_reward + r.ts.reward
    IN  IF i = times
        THEN [env |-> r.env,
              ts |-> TimeStep(r.ts.step_type, total, r.ts.discount, r.ts.observation)]
        ELSE Repeat_nobreak(i + 1, times, r.env, action, cs, total)

\* The i-th pass of the loop of step and what follows it.
RECURSIVE Repeat(_, _, _, _, _, _)
Repeat(i, times, e, action, cs, total_reward) ==
    LET r == EnvStep(e, action, cs[i])
        total == total_reward + r.ts.reward
    IN  IF is_last(r.ts) \/ i = times
        THEN [env |-> r.env,
              ts |-> TimeStep(r.ts.step_type, total, r.ts.discount, r.ts.observation)]
        ELSE Repeat(i + 1, times, r.env, action, cs, total)

ActionRepeat_step(self, e, action, cs) == Repeat(1, self.times, e, action, cs, 0)

\* reset is PyEnvironmentBaseWrapper's.
ActionRepeat_reset(self, e, c) == PyEnvironmentBaseWrapper_reset(e, c)

-----------------------------------------------------------------------------
(* An ActionRepeat over the environment.  The action and the answers of    *)
(* the environment are drawn once; the discount of an answer is the one    *)
(* its step type has by default (1 for a transition, 0 for a termination), *)
(* and the answers after a LAST repeat it, being never asked for.          *)

RepeatAnswers ==
    {c \in Answers(TRUE) : c.discount = IF c.step_type = LAST THEN 0 ELSE 1}

Scripts(k) ==
    {cs \in [1..k -> RepeatAnswers] :
        \A i \in 1..(k - 1) : cs[i].step_type = LAST => cs[i + 1] = cs[i]}

StatsUnused ==
    /\ tl = Unused
    /\ rs = Unused
    /\ limited = FALSE
    /\ hist = <<>>
    /\ seen = NoSeen

statsVars == <<tl, rs, limited, hist, seen>>

InitRepeat ==
    /\ env = NewEnv
    /\ envEnds = TRUE
    /\ StatsUnused
    /\ last = NoCall
    /\ calls = 0
    /\ direct = Unused
    /\ \E k \in 2..MaxTimes :
         /\ wrapper = NewActionRepeat(k)
         /\ input \in [action : Actions, answers : Scripts(k)]

RepeatReset ==
    /\ calls < MaxRepeatCalls
    /\ LET r == ActionRepeat_reset(wrapper, Called(env), input.answers[1])
       IN  /\ env' = r.env
           /\ last' = [method |-> "reset", arg |-> 0, ts |-> r.ts]
    /\ calls' = calls + 1
    /\ UNCHANGED <<envEnds, statsVars, wrapper, input, direct>>

RepeatStep ==
    /\ calls < MaxRepeatCalls
    /\ LET r == ActionRepeat_step(wrapper, Called(env), input.action, input.answers)
       IN  /\ env' = r.env
           /\ last' = [method |-> "step", arg |-> input.action, ts |-> r.ts]
    /\ calls' = calls + 1
    /\ UNCHANGED <<envEnds, statsVars, wrapper, input, direct>>

NextRepeat == RepeatReset \/ RepeatStep

SpecRepeat == InitRepeat /\ [][NextRepeat]_vars

RECURSIVE SumRewards(_)
SumRewards(log) ==
    IF log = <<>> THEN 0 ELSE log[1].ts.reward + SumRewards(Tail(log))

\* C4: step(action) steps the wrapped environment with the same action, times
\* times when no inner time step is LAST and otherwise up to the first inner
\* LAST and no further; it returns the sum of the inner rewards with the step
\* type, discount and observation of the final inner step.
C4_ActionRepeatStep ==
    last.method = "step" =>
        LET n == Len(env.log)
        IN  /\ n >= 1
            /\ n <= wrapper.times
            /\ \A i \in 1..n : /\ env.log[i].call = "step"
                               /\ env.log[i].arg = last.arg
            /\ \A i \in 1..(n - 1) : ~is_last(env.log[i].ts)
            /\ (n < wrapper.times => is_last(env.log[n].ts))
            /\ last.ts.reward = SumRewards(env.log)
            /\ last.ts.step_type = env.log[n].ts.step_type
            /\ last.ts.discount = env.log[n].ts.discount
            /\ last.ts.observation = env.log[n].ts.observation

\* three inner steps MID, MID, MID with rewards 1, 0, 1
C4_WitnessFull ==
    /\ last.method = "step"
    /\ wrapper.times = 3
    /\ Len(env.log) = 3
    /\ env.log[1].ts.reward = 1 /\ env.log[2].ts.reward = 0
    /\ env.log[3].ts.reward = 1
    /\ ~is_last(env.log[3].ts)
    /\ last.ts.reward = 2
    /\ last.arg = 1

\* the second of three inner steps is LAST
C4_WitnessBreak ==
    /\ last.method = "step"
    /\ wrapper.times = 3
    /\ Len(env.log) = 2
    /\ is_last(env.log[2].ts)
    /\ is_last(last.ts)
    /\ last.ts.reward = 2

C4_Witness == C4_WitnessFull \/ C4_WitnessBreak

-----------------------------------------------------------------------------
(* The constructor of ActionRepeat, called with any integer for times, and *)
(* the calls made afterwards on the wrapper it has built, if any.          *)

NotConstructed == [constructed |-> FALSE, raised |-> ""]

ActionRepeat_init_strict(e, times) ==
    IF times < 1
    THEN [raised |-> "ValueError", env |-> e, self |-> NotConstructed]
    ELSE [raised |-> "", env |-> e,
          self |-> [constructed |-> TRUE, raised |-> "", times |-> times]]

\* __init__(env, times): the base constructor keeps env without calling it.
ActionRepeat_init(e, times) ==
    IF times <= 1
    THEN [raised |-> "ValueError", env |-> e, self |-> NotConstructed]
    ELSE [raised |-> "", env |-> e,
          self |-> [constructed |-> TRUE, raised |-> "", times |-> times]]

TimesGiven == (0 - 1)..MaxTimes

InitRepeatInit ==
    /\ env = NewEnv
    /\ envEnds = TRUE
    /\ StatsUnused
    /\ last = NoCall
    /\ calls = 0
    /\ direct = Unused
    /\ wrapper = NotConstructed
    /\ \E k \in TimesGiven :
         input \in [times : {k}, action : Actions, answers : Scripts(IF k >= 1 THEN k ELSE 1)]

RepeatInit ==
    /\ last = NoCall
    /\ LET r == ActionRepeat_init(Called(env), input.times)
       IN  /\ env' = r.env
           /\ wrapper' = [r.self EXCEPT !.raised = r.raised]
           /\ last' = [method |-> "__init__", arg |-> input.times, ts |-> NoTimeStep]
    /\ UNCHANGED <<envEnds, statsVars, calls, input, direct>>

RepeatInitReset ==
    /\ wrapper.constructed
    /\ calls < MaxRepeatCalls
    /\ LET r == ActionRepeat_reset(wrapper, Called(env), input.answers[1])
       IN  /\ env' = r.env
           /\ last' = [method |-> "reset", arg |-> 0, ts |-> r.ts]
    /\ calls' = calls + 1
    /\ UNCHANGED <<envEnds, statsVars, wrapper, input, direct>>

RepeatInitStep ==
    /\ wrapper.constructed
    /\ calls < MaxRepeatCalls
    /\ LET r == ActionRepeat_step(wrapper, Called(env), input.action, input.answers)
       IN  /\ env' = r.env
           /\ last' = [method |-> "step", arg |-> input.action, ts |-> r.ts]
    /\ calls' = calls + 1
    /\ UNCHANGED <<envEnds, statsVars, wrapper, input, direct>>

NextRepeatInit == RepeatInit \/ RepeatInitReset \/ RepeatInitStep

SpecRepeatInit == InitRepeatInit /\ [][NextRepeatInit]_vars

\* C11: the constructor of ActionRepeat raises ValueError whenever times <= 1
\* and builds the wrapper, with that number of repetitions, for every
\* times >= 2; it makes no call on the environment.
C11_ActionRepeatInit ==
    last.method # "none" =>
        /\ (input.times <= 1 <=> wrapper.raised = "ValueError")
        /\ (input.times >= 2 <=> wrapper.constructed)
        /\ (wrapper.constructed => wrapper.raised = "" /\ wrapper.times = input.times)
        /\ (last.method = "__init__" => env = NewEnv)

\* ActionRepeat(env, 1) has raised
C11_Witness ==
    /\ last.method = "__init__"
    /\ input.times = 1
    /\ wrapper.raised = "ValueError"
    /\ ~wrapper.constructed

\* ActionRepeat(env, 2) was built and has stepped the environment twice
C11_WitnessBuilt ==
    /\ last.method = "step"
    /\ input.times = 2
    /\ wrapper.constructed
    /\ Len(env.log) = 2

-----------------------------------------------------------------------------
(* A PyEnvironmentBaseWrapper over the environment, and the same calls     *)
(* made on a second environment that gives the same answers.               *)

RenderModes == {"rgb_array", "human"}

SpecsOfEnv == {"specA", "specB"}

InitBase ==
    /\ envEnds \in BOOLEAN
    /\ \E o \in SpecsOfEnv, a \in SpecsOfEnv : env = EnvWithSpecs(NewEnv, o, a)
    /\ direct = [env |-> env, result |-> NoTimeStep]
    /\ StatsUnused
    /\ last = [method |-> "none", arg |-> 0, result |-> NoTimeStep]
    /\ calls = 0
    /\ wrapper = Unused
    /\ input = Unused

BaseReset ==
    /\ calls < MaxCalls
    /\ \E c \in ResetAnswers :
         LET r == PyEnvironmentBaseWrapper_reset(Called(env), c)
             d == EnvReset(Called(direct.env), c)
         IN  /\ env' = r.env
             /\ last' = [method |-> "reset", arg |-> 0, result |-> r.ts]
             /\ direct' = [env |-> d.env, result |-> d.ts]
    /\ calls' = calls + 1
    /\ UNCHANGED <<envEnds, statsVars, wrapper, input>>

BaseStep ==
    /\ calls < MaxCalls
    /\ \E a \in Actions, c \in Answers(envEnds) :
         LET r == PyEnvironmentBaseWrapper_step(Called(env), a, c)
             d == EnvStep(Called(direct.env), a, c)
         IN  /\ env' = r.env
             /\ last' = [method |-> "step", arg |-> a, result |-> r.ts]
             /\ direct' = [env |-> d.env, result |-> d.ts]
    /\ calls' = calls + 1
    /\ UNCHANGED <<envEnds, statsVars, wrapper, input>>

BaseObservationSpec ==
    /\ calls < MaxCalls
    /\ LET r == PyEnvironmentBaseWrapper_observation_spec(Called(env))
           d == EnvObservationSpec(Called(direct.env))
       IN  /\ env' = r.env
           /\ last' = [method |-> "observation_spec", arg |-> 0, result |-> r.result]
           /\ direct' = [env |-> d.env, result |-> d.result]
    /\ calls' = calls + 1
    /\ UNCHANGED <<envEnds, statsVars, wrapper, input>>

BaseActionSpec ==
    /\ calls < MaxCalls
    /\ LET r == PyEnvironmentBaseWrapper_action_spec(Called(env))
           d == EnvActionSpec(Called(direct.env))
       IN  /\ env' = r.env
           /\ last' = [method |-> "action_spec", arg |-> 0, result |-> r.result]
           /\ direct' = [env |-> d.env, result |-> d.result]
    /\ calls' = calls + 1
    /\ UNCHANGED <<envEnds, statsVars, wrapper, input>>

BaseRender ==
    /\ calls < MaxCalls
    /\ \E mode \in RenderModes :
         LET r == PyEnvironmentBaseWrapper_render(Called(env), mode)
             d == EnvRender(Called(direct.env), mode)
         IN  /\ env' = r.env
             /\ last' = [method |-> "render", arg |-> mode, result |-> r.result]
             /\ direct' = [env |-> d.env, result |-> d.result]
    /\ calls' = calls + 1
    /\ UNCHANGED <<envEnds, statsVars, wrapper, input>>

\* wrapped_env() is the wrapper's own: nothing is called on the environment.
BaseWrappedEnv ==
    /\ calls < MaxCalls
    /\ LET r == PyEnvironmentBaseWrapper_wrapped_env(Called(env))
       IN  /\ env' = r.env
           /\ last' = [method |-> "wrapped_env", arg |-> 0, result |-> r.result]
           /\ direct' = [env |-> Called(direct.env), result |-> Called(direct.env)]
    /\ calls' = calls + 1
    /\ UNCHANGED <<envEnds, statsVars, wrapper, input>>

NextBase ==
    \/ BaseReset
    \/ BaseStep
    \/ BaseObservationSpec
    \/ BaseActionSpec
    \/ BaseRender
    \/ BaseWrappedEnv

SpecBase == InitBase /\ [][NextBase]_vars

\* C6: reset, step, observation_spec, action_spec and render call the same
\* method of the wrapped environment once, with the same argument, and return
\* its result; results and environment are those of the same calls made on
\* the environment directly; wrapped_env() returns the environment.
C6_BaseWrapperForwards ==
    /\ env = direct.env
    /\ last.result = direct.result
    /\ (last.method \in {"reset", "step", "observation_spec", "action_spec", "render"}
          => /\ Len(env.log) = 1
             /\ env.log[1].call = last.method
             /\ env.log[1].arg = last.arg)
    /\ (last.method \in {"reset", "step"} => env.log[1].ts = last.result)
    /\ (last.method = "wrapped_env" => last.result = env /\ env.log = <<>>)

C6_WitnessStep ==
    /\ last.method = "step"
    /\ last.arg = 1
    /\ last.result.step_type = LAST
    /\ last.result.reward = 1
    /\ env.phase = "ended"
    /\ env.since = 3

C6_WitnessRender ==
    /\ last.method = "render"
    /\ last.arg = "human"
    /\ last.result.mode = "human"
    /\ env.since = 2

C6_Witness == C6_WitnessStep \/ C6_WitnessRender

-----------------------------------------------------------------------------
(* Arrays and array specs.  An array is a sequence of integers (its shape  *)
(* is its length); a bounded spec has a minimum and a maximum array of its *)
(* shape, either of which ActionClipWrapper allows to be None.             *)

None == <<>>

Max2(a, b) == IF a >= b THEN a ELSE b
Min2(a, b) == IF a <= b THEN a ELSE b

BoundedArraySpec(shape, dtype, minimum, maximum) ==
    [shape |-> shape, dtype |-> dtype, minimum |-> minimum, maximum |-> maximum]

\* np.zeros(shape)
Zeros(shape) == [i \in 1..shape |-> 0]

\* The bound arrays of a shape: a value at the first component, the same or
\* one more at each next component.
BoundArrays(shape) ==
    {[i \in 1..shape |-> v + s * (i - 1)] : v \in (-MaxBound)..MaxBound, s \in {0, 1}}

ArrayLeq(a, b) == \A i \in DOMAIN a : a[i] <= b[i]

\* The arrays of a shape that lie within, below, above and across the bounds.
ActionArrays(shape) == [1..shape -> (-MaxBound - 1)..(MaxBound + MaxDim)]

-----------------------------------------------------------------------------
(* ActionClipWrapper *)

\* np.clip(act, minimum, maximum): minimum(maximum(act, minimum), maximum),
\* a bound that is None left out.
np_clip(act, minimum, maximum) ==
    [i \in DOMAIN act |->
        LET x == IF minimum = None THEN act[i] ELSE Max2(act[i], minimum[i])
        IN  IF maximum = None THEN x ELSE Min2(x, maximum[i])]

clip_to_spec_minonly(act_spec, act) ==
    IF act_spec.minimum = None /\ act_spec.maximum = None
    THEN act
    ELSE np_clip(act, act_spec.minimum, None)

clip_to_spec(act_spec, act) ==
    IF act_spec.minimum = None /\ act_spec.maximum = None
    THEN act
    ELSE np_clip(act, act_spec.minimum, act_spec.maximum)

ActionClipWrapper_step(e, action, c) ==
    LET s == EnvActionSpec(e)
        clipped_actions == clip_to_spec(s.result, action)
    IN  EnvStep(s.env, clipped_actions, c)

-----------------------------------------------------------------------------
(* An ActionClipWrapper over an environment whose action spec has a        *)
(* minimum, a maximum, both (minimum <= maximum) or neither.               *)

ClipSpecs ==
    UNION {
        {BoundedArraySpec(n, "float32", lo, hi) :
            lo \in BoundArrays(n) \cup {None}, hi \in BoundArrays(n) \cup {None}}
        : n \in 1..MaxDim}

InitClip ==
    /\ envEnds = FALSE
    /\ \E spec \in ClipSpecs :
         /\ (spec.minimum # None /\ spec.maximum # None
               => ArrayLeq(spec.minimum, spec.maximum))
         /\ env = EnvWithSpecs(NewEnv, "observation", spec)
         /\ input \in [action : ActionArrays(spec.shape)]
    /\ StatsUnused
    /\ last = NoCall
    /\ calls = 0
    /\ wrapper = Unused
    /\ direct = Unused

ClipReset ==
    /\ calls < MaxWrapCalls
    /\ \E c \in {x \in ResetAnswers : x.observation = 0} :
         LET r == PyEnvironmentBaseWrapper_reset(Called(env), c)
         IN  /\ env' = r.env
             /\ last' = [method |-> "reset", arg |-> 0, ts |-> r.ts]
    /\ calls' = calls + 1
    /\ UNCHANGED <<envEnds, statsVars, wrapper, input, direct>>

ClipStep ==
    /\ calls < MaxWrapCalls
    /\ \E c \in {x \in PlainAnswers(envEnds) : x.reward = 0} :
         LET r == ActionClipWrapper_step(Called(env), input.action, c)
         IN  /\ env' = r.env
             /\ last' = [method |-> "step", arg |-> input.action, ts |-> r.ts]
    /\ calls' = calls + 1
    /\ UNCHANGED <<envEnds, statsVars, wrapper, input, direct>>

NextClip == ClipReset \/ ClipStep

SpecClip == InitClip /\ [][NextClip]_vars

\* The calls made on the environment by the last call on the wrapper.
LogOf(call) == SelectSeq(env.log, LAMBDA x : x.call = call)

\* C7: step passes to the environment, in one step call, the action with
\* every component below the spec's minimum replaced by the minimum, every
\* component above the maximum replaced by the maximum and the others as
\* they are; clipping the clipped action changes nothing; with neither
\* minimum nor maximum the action is passed as it is.
C7_ClipToSpec ==
    last.method = "step" =>
        LET spec == env.action_spec
            act == last.arg
            steps == LogOf("step")
            passed == steps[1].arg
        IN  /\ Len(steps) = 1
            /\ DOMAIN passed = DOMAIN act
            /\ \A i \in DOMAIN act :
                 LET below == spec.minimum # None /\ act[i] < spec.minimum[i]
                     above == spec.maximum # None /\ act[i] > spec.maximum[i]
                 IN  /\ below => passed[i] = spec.minimum[i]
                     /\ above => passed[i] = spec.maximum[i]
                     /\ (~below /\ ~above) => passed[i] = act[i]
            /\ clip_to_spec(spec, passed) = passed
            /\ (spec.minimum = None /\ spec.maximum = None => passed = act)

\* one component below the minimum, one above the maximum
C7_WitnessBoth ==
    /\ last.method = "step"
    /\ env.action_spec.shape = 2
    /\ env.action_spec.minimum = <<-1, 0>>
    /\ env.action_spec.maximum = <<1, 1>>
    /\ last.arg = <<-2, 3>>
    /\ LogOf("step")[1].arg = <<-1, 1>>

C7_WitnessNone ==
    /\ last.method = "step"
    /\ env.action_spec.minimum = None
    /\ env.action_spec.maximum = None
    /\ last.arg = <<3, -2>>
    /\ LogOf("step")[1].arg = <<3, -2>>

C7_WitnessMaxOnly ==
    /\ last.method = "step"
    /\ env.action_spec.minimum = None
    /\ env.action_spec.maximum = <<0, 1>>
    /\ last.arg = <<-2, 2>>
    /\ LogOf("step")[1].arg = <<-2, 1>>

C7_Witness == C7_WitnessBoth \/ C7_WitnessNone \/ C7_WitnessMaxOnly

-----------------------------------------------------------------------------
(* ActionOffsetWrapper *)

ArrayAdd(a, b) == [i \in DOMAIN a |-> a[i] + b[i]]
ArraySub(a, b) == [i \in DOMAIN a |-> a[i] - b[i]]

ActionOffsetWrapper_action_spec(e) ==
    LET s == EnvActionSpec(e)
        spec == s.result
        minimum == Zeros(spec.shape)
        maximum == ArraySub(spec.maximum, spec.minimum)
    IN  [env |-> s.env,
         result |-> BoundedArraySpec(spec.shape, spec.dtype, minimum, maximum)]

ActionOffsetWrapper_step_minus(e, action, c) ==
    LET s == EnvActionSpec(e)
    IN  EnvStep(s.env, ArraySub(action, s.result.minimum), c)

ActionOffsetWrapper_step(e, action, c) ==
    LET s == EnvActionSpec(e)
    IN  EnvStep(s.env, ArrayAdd(action, s.result.minimum), c)

\* The arrays a bounded spec allows.
ArraysIn(spec) ==
    LET lo == CHOOSE x \in {spec.minimum[i] : i \in 1..spec.shape} :
                  \A i \in 1..spec.shape : x <= spec.minimum[i]
        hi == CHOOSE x \in {spec.maximum[i] : i \in 1..spec.shape} :
                  \A i \in 1..spec.shape : x >= spec.maximum[i]
    IN  {a \in [1..spec.shape -> lo..hi] :
            ArrayLeq(spec.minimum, a) /\ ArrayLeq(a, spec.maximum)}

\* An array with component i raised by one.
Raised(a, i) == [a EXCEPT ![i] = @ + 1]

-----------------------------------------------------------------------------
(* An ActionOffsetWrapper over an environment with a single bounded        *)
(* discrete action spec (what its constructor lets through).               *)

OffsetSpecs ==
    UNION {
        {BoundedArraySpec(n, dtype, lo, hi) :
            dtype \in {"int32", "int64"}, lo \in BoundArrays(n), hi \in BoundArrays(n)}
        : n \in 1..MaxDim}

InitOffset ==
    /\ envEnds = FALSE
    /\ \E spec \in OffsetSpecs :
         /\ ArrayLeq(spec.minimum, spec.maximum)
         /\ env = EnvWithSpecs(NewEnv, "observation", spec)
    /\ input = Unused
    /\ StatsUnused
    /\ last = [method |-> "none", arg |-> 0, result |-> NoTimeStep]
    /\ calls = 0
    /\ wrapper = Unused
    /\ direct = Unused

OffsetActionSpec ==
    /\ calls < MaxWrapCalls
    /\ LET r == ActionOffsetWrapper_action_spec(Called(env))
       IN  /\ env' = r.env
           /\ last' = [method |-> "action_spec", arg |-> 0, result |-> r.result]
    /\ calls' = calls + 1
    /\ UNCHANGED <<envEnds, statsVars, wrapper, input, direct>>

OffsetStep ==
    /\ calls < MaxWrapCalls
    /\ \E a \in ArraysIn(ActionOffsetWrapper_action_spec(env).result),
          c \in {x \in PlainAnswers(envEnds) : x.reward = 0} :
         LET r == ActionOffsetWrapper_step(Called(env), a, c)
         IN  /\ env' = r.env
             /\ last' = [method |-> "step", arg |-> a, result |-> r.ts]
    /\ calls' = calls + 1
    /\ UNCHANGED <<envEnds, statsVars, wrapper, input, direct>>

NextOffset == OffsetActionSpec \/ OffsetStep

SpecOffset == InitOffset /\ [][NextOffset]_vars

OffsetPassed == LogOf("step")[1].arg

\* The action step(a) passes to the environment in the current state.
OffsetImage(a) ==
    LET c == CHOOSE x \in PlainAnswers(FALSE) : TRUE
        r == ActionOffsetWrapper_step(Called(env), a, c)
        steps == SelectSeq(r.env.log, LAMBDA x : x.call = "step")
    IN  steps[1].arg

\* C8: action_spec() has the environment spec's shape and dtype, minimum 0 and
\* maximum (maximum - minimum); step(a) steps the environment once with
\* a + minimum; the actions of the spec action_spec() returns are so mapped
\* one to one and in order onto the actions of the environment's spec.
C8_OffsetZeroBased ==
    LET spec == env.action_spec
    IN  /\ last.method = "action_spec" =>
              /\ last.result.shape = spec.shape
              /\ last.result.dtype = spec.dtype
              /\ \A i \in 1..spec.shape :
                   /\ last.result.minimum[i] = 0
                   /\ last.result.maximum[i] = spec.maximum[i] - spec.minimum[i]
              /\ {OffsetImage(a) : a \in ArraysIn(last.result)} = ArraysIn(spec)
              /\ Cardinality(ArraysIn(last.result)) = Cardinality(ArraysIn(spec))
              /\ \A a \in ArraysIn(last.result) :
                   \A i \in 1..spec.shape :
                       a[i] < last.result.maximum[i]
                         => OffsetImage(Raised(a, i)) = Raised(OffsetImage(a), i)
              /\ OffsetImage(last.result.minimum) = spec.minimum
              /\ OffsetImage(last.result.maximum) = spec.maximum
        /\ last.method = "step" =>
              /\ Len(LogOf("step")) = 1
              /\ OffsetPassed = OffsetImage(last.arg)
              /\ \A i \in 1..spec.shape :
                   OffsetPassed[i] = last.arg[i] + spec.minimum[i]

C8_WitnessStep ==
    /\ last.method = "step"
    /\ env.action_spec.minimum = <<-1, 0>>
    /\ env.action_spec.maximum = <<1, 2>>
    /\ last.arg = <<2, 1>>
    /\ OffsetPassed = <<1, 1>>

C8_WitnessSpec ==
    /\ last.method = "action_spec"
    /\ env.action_spec.minimum = <<-1, 0>>
    /\ env.action_spec.maximum = <<1, 2>>
    /\ last.result.minimum = <<0, 0>>
    /\ last.result.maximum = <<2, 2>>

C8_Witness == C8_WitnessStep \/ C8_WitnessSpec

-----------------------------------------------------------------------------
(* ActionDiscretizeWrapper.  A continuous value is a fraction num/den; the *)
(* values np.linspace(start, stop, num) gives are start + j * step with    *)
(* step = (stop - start) / (num - 1), for j = 0..num-1.                    *)

Frac(num, den) == [num |-> num, den |-> den]
FracEq(a, b) == a.num * b.den = b.num * a.den
FracLess(a, b) == a.num * b.den < b.num * a.den

\* np.broadcast_to(x, shape), for x of one component or of that shape
broadcast_to(x, shape) ==
    IF Len(x) = shape THEN x ELSE [i \in 1..shape |-> x[1]]

linspace_noendpoint(start, stop, num) ==
    [j \in 1..num |-> Frac(start * num + (j - 1) * (stop - start), num)]

linspace(start, stop, num) ==
    [j \in 1..num |-> Frac(start * (num - 1) + (j - 1) * (stop - start), num - 1)]

\* _discretize_spec, for limits that are all >= 2
discretize_spec(spec, limits) ==
    LET discrete_spec == BoundedArraySpec(spec.shape, "int32", Zeros(spec.shape),
                                          [i \in 1..spec.shape |-> limits[i] - 1])
        minimum == broadcast_to(spec.minimum, spec.shape)
        maximum == broadcast_to(spec.maximum, spec.shape)
        action_map == [i \in 1..spec.shape |-> linspace(minimum[i], maximum[i], limits[i])]
    IN  [discrete_spec |-> discrete_spec, action_map |-> action_map]

NewActionDiscretizeWrapper(e, num_actions) ==
    LET action_spec == e.action_spec
        limits == broadcast_to(num_actions, action_spec.shape)
        d == discretize_spec(action_spec, limits)
    IN  [num_actions |-> limits, discrete_spec |-> d.discrete_spec,
         action_map |-> d.action_map]

ActionDiscretizeWrapper_action_spec(self, e) == [env |-> e, result |-> self.discrete_spec]

\* action_map[i][a], a counted from 0
map_actions(self, action, action_map) ==
    [i \in 1..Len(action) |-> action_map[i][action[i] + 1]]

ActionDiscretizeWrapper_step(self, e, action, c) ==
    LET continuous_actions == map_actions(self, action, self.action_map)
        s == EnvActionSpec(e)
    IN  EnvStep(s.env, continuous_actions, c)

-----------------------------------------------------------------------------
(* An ActionDiscretizeWrapper over an environment with a single bounded    *)
(* action spec, constructed with a number of actions for all dimensions or *)
(* one for each.                                                           *)

DiscretizeSpecs ==
    UNION {
        {BoundedArraySpec(n, "float32", lo, hi) :
            lo \in BoundArrays(n), hi \in BoundArrays(n)}
        : n \in 1..MaxDim}

NumActions(shape) == [1..1 -> 2..MaxNumActions] \cup [1..shape -> 2..MaxNumActions]

InitDiscretize ==
    /\ envEnds = FALSE
    /\ \E spec \in DiscretizeSpecs :
         /\ ArrayLeq(spec.minimum, spec.maximum)
         /\ env = EnvWithSpecs(NewEnv, "observation", spec)
         /\ \E na \in NumActions(spec.shape) :
              wrapper = NewActionDiscretizeWrapper(env, na)
    /\ input = Unused
    /\ StatsUnused
    /\ last = [method |-> "none", arg |-> 0, result |-> NoTimeStep]
    /\ calls = 0
    /\ direct = Unused

DiscretizeActionSpec ==
    /\ calls < MaxWrapCalls
    /\ LET r == ActionDiscretizeWrapper_action_spec(wrapper, Called(env))
       IN  /\ env' = r.env
           /\ last' = [method |-> "action_spec", arg |-> 0, result |-> r.result]
    /\ calls' = calls + 1
    /\ UNCHANGED <<envEnds, statsVars, wrapper, input, direct>>

DiscretizeStep ==
    /\ calls < MaxWrapCalls
    /\ \E a \in ArraysIn(wrapper.discrete_spec),
          c \in {x \in PlainAnswers(envEnds) : x.reward = 0} :
         LET r == ActionDiscretizeWrapper_step(wrapper, Called(env), a, c)
         IN  /\ env' = r.env
             /\ last' = [method |-> "step", arg |-> a, result |-> r.ts]
    /\ calls' = calls + 1
    /\ UNCHANGED <<envEnds, statsVars, wrapper, input, direct>>

NextDiscretize == DiscretizeActionSpec \/ DiscretizeStep

SpecDiscretize == InitDiscretize /\ [][NextDiscretize]_vars

\* The action step(a) passes to the environment in the current state.
DiscretizeImage(a) ==
    LET c == CHOOSE x \in PlainAnswers(FALSE) : TRUE
        r == ActionDiscretizeWrapper_step(wrapper, Called(env), a, c)
        steps == SelectSeq(r.env.log, LAMBDA x : x.call = "step")
    IN  steps[1].arg

\* C9: action_spec() is an int32 bounded spec of the environment's action
\* shape with minimum 0 and maximum num_actions - 1 in each dimension; step
\* passes for the discrete action a of a dimension with n actions and bounds
\* [lo, hi] the value lo + a * (hi - lo) / (n - 1): lo for 0, hi for n - 1,
\* and a greater value for a greater a when lo < hi.
C9_DiscretizeLinspace ==
    LET spec == env.action_spec
        n == wrapper.num_actions
    IN  /\ last.method = "action_spec" =>
              /\ last.result.dtype = "int32"
              /\ last.result.shape = spec.shape
              /\ Len(n) = spec.shape
              /\ \A i \in 1..spec.shape :
                   /\ last.result.minimum[i] = 0
                   /\ last.result.maximum[i] = n[i] - 1
                   /\ FracEq(DiscretizeImage(last.result.minimum)[i],
                             Frac(spec.minimum[i], 1))
                   /\ FracEq(DiscretizeImage(last.result.maximum)[i],
                             Frac(spec.maximum[i], 1))
              /\ \A a \in ArraysIn(last.result) :
                   \A i \in 1..spec.shape :
                       (a[i] < last.result.maximum[i]
                          /\ spec.minimum[i] < spec.maximum[i])
                         => FracLess(DiscretizeImage(a)[i],
                                     DiscretizeImage(Raised(a, i))[i])
        /\ last.method = "step" =>
              /\ Len(LogOf("step")) = 1
              /\ LogOf("step")[1].arg = DiscretizeImage(last.arg)
              /\ \A i \in 1..spec.shape :
                   LET lo == spec.minimum[i]
                       hi == spec.maximum[i]
                       v == LogOf("step")[1].arg[i]
                   IN  /\ v.den > 0
                       /\ v.num * (n[i] - 1)
                            = (lo * (n[i] - 1) + last.arg[i] * (hi - lo)) * v.den

\* the middle of three actions in [-1, 1] and the last of two in [0, 1]
C9_WitnessStep ==
    /\ last.method = "step"
    /\ env.action_spec.minimum = <<-1, 0>>
    /\ env.action_spec.maximum = <<1, 1>>
    /\ wrapper.num_actions = <<3, 2>>
    /\ last.arg = <<1, 1>>
    /\ FracEq(LogOf("step")[1].arg[1], Frac(0, 1))
    /\ FracEq(LogOf("step")[1].arg[2], Frac(1, 1))

C9_WitnessSpec ==
    /\ last.method = "action_spec"
    /\ env.action_spec.shape = 2
    /\ wrapper.num_actions = <<3, 3>>
    /\ last.result.maximum = <<2, 2>>
    /\ last.result.minimum = <<0, 0>>

C9_Witness == C9_WitnessStep \/ C9_WitnessSpec

-----------------------------------------------------------------------------
(* FlattenObservationsWrapper.  An n-dimensional array is its shape and    *)
(* its elements in row-major order; an observation is a dict from keys to  *)
(* arrays and an observation spec a dict from keys to ArraySpecs.          *)

\* observations_whitelist: None, or a list of keys
NoWhitelist == [is_none |-> TRUE, keys |-> {}]
Whitelist(keys) == [is_none |-> FALSE, keys |-> keys]

Array(shape, data) == [shape |-> shape, data |-> data]
ArraySpec(shape, dtype) == [shape |-> shape, dtype |-> dtype]

\* np.prod(shape)
RECURSIVE Prod(_)
Prod(shape) == IF shape = <<>> THEN 1 ELSE shape[1] * Prod(Tail(shape))

\* The order nest.flatten puts the values of a dict in: that of their keys.
SortedKeys == <<"position", "target", "velocity">>

RECURSIVE SelectKeys(_, _)
SelectKeys(keys, d) ==
    IF keys = <<>> THEN <<>>
    ELSE IF keys[1] \in DOMAIN d
         THEN <<d[keys[1]]>> \o SelectKeys(Tail(keys), d)
         ELSE SelectKeys(Tail(keys), d)

nest_flatten(d) == SelectKeys(SortedKeys, d)

\* np.asarray: an ArraySpec becomes a 0-dimensional array holding it
asarray(x) == IF "data" \in DOMAIN x THEN x ELSE Array(<<>>, <<x>>)

\* np.reshape(x, [-1]) and np.reshape(x, [x.shape[0], -1])
np_flatten(x, is_batched) ==
    LET a == asarray(x)
    IN  IF is_batched
        THEN Array(<<a.shape[1], Len(a.data) \div a.shape[1]>>, a.data)
        ELSE Array(<<Len(a.data)>>, a.data)

\* np.concatenate(arrays, axis=0) of one-dimensional arrays
RECURSIVE concatenate0(_)
concatenate0(arrays) ==
    IF Len(arrays) = 1 THEN arrays[1]
    ELSE LET rest == concatenate0(Tail(arrays))
         IN  Array(<<arrays[1].shape[1] + rest.shape[1]>>, arrays[1].data \o rest.data)

\* Row b of a two-dimensional array.
Row(a, b) == SubSeq(a.data, (b - 1) * a.shape[2] + 1, b * a.shape[2])

RECURSIVE JoinRows(_, _)
JoinRows(arrays, b) ==
    IF arrays = <<>> THEN <<>> ELSE Row(arrays[1], b) \o JoinRows(Tail(arrays), b)

RECURSIVE AllRows(_, _, _)
AllRows(arrays, b, n) ==
    IF b > n THEN <<>> ELSE JoinRows(arrays, b) \o AllRows(arrays, b + 1, n)

RECURSIVE SumCols(_)
SumCols(arrays) ==
    IF arrays = <<>> THEN 0 ELSE arrays[1].shape[2] + SumCols(Tail(arrays))

\* np.concatenate(arrays, axis=1) of two-dimensional arrays
concatenate1(arrays) ==
    Array(<<arrays[1].shape[1], SumCols(arrays)>>,
          AllRows(arrays, 1, arrays[1].shape[1]))

filter_observations_keepall(self, observations) == observations

\* _filter_observations: the keys outside the whitelist are deleted
filter_observations(self, observations) ==
    LET filter_out == DOMAIN observations \ self.observations_whitelist.keys
    IN  [k \in DOMAIN observations \ filter_out |-> observations[k]]

flatten_nested_observations(observations, is_batched) ==
    LET flat == [k \in DOMAIN observations |-> np_flatten(observations[k], is_batched)]
    IN  IF is_batched
        THEN concatenate1(nest_flatten(flat))
        ELSE concatenate0(nest_flatten(flat))

RECURSIVE SumProd(_)
SumProd(specs) ==
    IF specs = <<>> THEN 0 ELSE Prod(specs[1].shape) + SumProd(Tail(specs))

\* __init__, for arguments it raises no ValueError for.  The dict of specs
\* the environment hands out is filtered in place: when the environment
\* hands out its own dict (shared) it loses the keys too.
NewFlattenObservationsWrapper(e, observations_whitelist, shared) ==
    LET self0 == [observations_whitelist |-> observations_whitelist]
        env_spec == e.observation_spec
        dtype == (CHOOSE k \in DOMAIN env_spec : TRUE)
        observations_spec ==
            IF ~observations_whitelist.is_none
            THEN filter_observations(self0, env_spec)
            ELSE env_spec
        observation_total_len ==
            SumProd(flatten_nested_observations(observations_spec, FALSE).data)
    IN  [self |-> [observations_whitelist |-> observations_whitelist,
                   observation_spec_dtype |-> env_spec[dtype].dtype,
                   flattened_observation_spec |->
                       ArraySpec(<<observation_total_len>>, env_spec[dtype].dtype)],
         env |-> IF shared THEN [e EXCEPT !.observation_spec = observations_spec] ELSE e]

pack_and_filter_timestep_observation(self, e, timestep) ==
    LET observations ==
            IF ~self.observations_whitelist.is_none
            THEN filter_observations(self, timestep.observation)
            ELSE timestep.observation
    IN  TimeStep(timestep.step_type, timestep.reward, timestep.discount,
                 flatten_nested_observations(observations, e.batched))

FlattenObservationsWrapper_step(self, e, action, c) ==
    LET r == EnvStep(e, action, c)
    IN  [env |-> r.env, ts |-> pack_and_filter_timestep_observation(self, r.env, r.ts)]

FlattenObservationsWrapper_reset(self, e, c) ==
    LET r == EnvReset(e, c)
    IN  [env |-> r.env, ts |-> pack_and_filter_timestep_observation(self, r.env, r.ts)]

FlattenObservationsWrapper_observation_spec(self, e) ==
    [env |-> e, result |-> self.flattened_observation_spec]

-----------------------------------------------------------------------------
(* A FlattenObservationsWrapper over an environment whose observations are *)
(* a dict of arrays of one dtype, batched or not.  The value at place j of *)
(* the observation of a key tells the key and j; it changes with the       *)
(* number of steps the environment has made.                               *)

ObservationKeys == {SortedKeys[i] : i \in 1..Len(SortedKeys)}

\* The shapes of the observations: a scalar, vectors, matrices of MaxDim rows.
Shapes == {<<>>} \cup {<<n>> : n \in 1..MaxDim} \cup {<<MaxDim, n>> : n \in 1..MaxDim}

KeyIndex(k) == CHOOSE i \in 1..Len(SortedKeys) : SortedKeys[i] = k

ValueAt(k, j, since) == 1000 * KeyIndex(k) + 100 * (since % 2) + j

\* The observation an environment of these specs makes.
ObservationOf(e) ==
    [k \in DOMAIN e.full_spec |->
        LET shape == IF e.batched THEN <<BatchSize>> \o e.full_spec[k].shape
                     ELSE e.full_spec[k].shape
        IN  Array(shape, [j \in 1..Prod(shape) |-> ValueAt(k, j, e.since)])]

FlattenAnswer(e) ==
    [step_type |-> MID, reward |-> 0, discount |-> 1, observation |-> ObservationOf(e)]

FlattenEnv(observation_spec, batched) ==
    [phase |-> "fresh", since |-> 0, log |-> <<>>,
     observation_spec |-> observation_spec, action_spec |-> "action",
     full_spec |-> observation_spec, batched |-> batched]

InitFlatten ==
    /\ envEnds = FALSE
    /\ \E keys \in (SUBSET ObservationKeys) \ {{}} :
         \E spec \in [keys -> {ArraySpec(sh, "float32") : sh \in Shapes}],
            whitelist \in {Whitelist(w) : w \in (SUBSET keys) \ {{}}} \cup {NoWhitelist},
            batched \in BOOLEAN, shared \in BOOLEAN :
              LET r == NewFlattenObservationsWrapper(FlattenEnv(spec, batched),
                                                     whitelist, shared)
              IN  /\ wrapper = r.self
                  /\ env = r.env
    /\ StatsUnused
    /\ last = [method |-> "none", arg |-> 0, result |-> NoTimeStep]
    /\ calls = 0
    /\ input = Unused
    /\ direct = Unused

FlattenReset ==
    /\ calls < MaxFlattenCalls
    /\ LET r == FlattenObservationsWrapper_reset(wrapper, Called(env), FlattenAnswer(env))
       IN  /\ env' = r.env
           /\ last' = [method |-> "reset", arg |-> 0, result |-> r.ts]
    /\ calls' = calls + 1
    /\ UNCHANGED <<envEnds, statsVars, wrapper, input, direct>>

FlattenStep ==
    /\ calls < MaxFlattenCalls
    /\ LET r == FlattenObservationsWrapper_step(wrapper, Called(env), 0, FlattenAnswer(env))
       IN  /\ env' = r.env
           /\ last' = [method |-> "step", arg |-> 0, result |-> r.ts]
    /\ calls' = calls + 1
    /\ UNCHANGED <<envEnds, statsVars, wrapper, input, direct>>

FlattenObservationSpec ==
    /\ calls < MaxFlattenCalls
    /\ LET r == FlattenObservationsWrapper_observation_spec(wrapper, Called(env))
       IN  /\ env' = r.env
           /\ last' = [method |-> "observation_spec", arg |-> 0, result |-> r.result]
    /\ calls' = calls + 1
    /\ UNCHANGED <<envEnds, statsVars, wrapper, input, direct>>

NextFlatten == FlattenReset \/ FlattenStep \/ FlattenObservationSpec

SpecFlatten == InitFlatten /\ [][NextFlatten]_vars

\* The keys of the observations kept, their element count and their values
\* in the time step the environment returned last.
KeptKeys ==
    IF wrapper.observations_whitelist.is_none
    THEN DOMAIN env.full_spec
    ELSE wrapper.observations_whitelist.keys

RECURSIVE SumOver(_, _)
SumOver(keys, spec) ==
    IF keys = {} THEN 0
    ELSE LET k == CHOOSE x \in keys : TRUE
         IN  Prod(spec[k].shape) + SumOver(keys \ {k}, spec)

KeptLength == SumOver(KeptKeys, env.full_spec)

KeptValues ==
    LET obs == env.log[Len(env.log)].ts.observation
    IN  UNION {{obs[k].data[j] : j \in 1..Len(obs[k].data)} : k \in KeptKeys}

\* C10: observation_spec() is a one-dimensional spec whose length is the sum
\* of the element counts of the kept observations (all of them without a
\* whitelist, the whitelisted ones with one); for an unbatched environment
\* the observation of every time step reset() and step() return is a
\* one-dimensional array of that length holding the values of the kept
\* observations and no others.
C10_FlattenLength ==
    /\ Len(wrapper.flattened_observation_spec.shape) = 1
    /\ wrapper.flattened_observation_spec.shape[1] = KeptLength
    /\ last.method = "observation_spec" =>
          last.result = wrapper.flattened_observation_spec
    /\ (last.method \in {"reset", "step"} /\ ~env.batched) =>
          LET obs == last.result.observation
          IN  /\ Len(obs.shape) = 1
              /\ obs.shape[1] = KeptLength
              /\ Len(obs.data) = KeptLength
              /\ {obs.data[j] : j \in 1..Len(obs.data)} = KeptValues

C10_WitnessWhitelist ==
    /\ last.method = "step"
    /\ ~env.batched
    /\ DOMAIN env.full_spec = ObservationKeys
    /\ wrapper.observations_whitelist = Whitelist({"position", "velocity"})
    /\ env.full_spec["position"].shape = <<2, 2>>
    /\ env.full_spec["velocity"].shape = <<>>
    /\ last.result.observation.shape = <<5>>
    /\ env.phase = "running"
    /\ env.since = 2

C10_WitnessAll ==
    /\ last.method = "reset"
    /\ ~env.batched
    /\ DOMAIN env.full_spec = ObservationKeys
    /\ wrapper.observations_whitelist = NoWhitelist
    /\ env.full_spec["position"].shape = <<2>>
    /\ env.full_spec["target"].shape = <<2, 1>>
    /\ env.full_spec["velocity"].shape = <<2, 2>>
    /\ last.result.observation.data = <<1001, 1002, 2001, 2002, 3001, 3002, 3003, 3004>>

C10_Witness == C10_WitnessWhitelist \/ C10_WitnessAll

-----------------------------------------------------------------------------
(* TFEnvironmentMock of tf_environment_test.py.  env holds its four        *)
(* tf.Variables and wrapper its constant initial state.  An evaluation of  *)
(* reset(), step(action) or current_time_step() runs the ops of its graph  *)
(* in the order of their control dependencies, as one action.              *)

NewTFEnvironmentMock(initial_state) ==
    [self |-> [initial_state |-> initial_state],
     variables |-> [state |-> initial_state, steps |-> 0, episodes |-> 0, resets |-> 0]]

\* first, mid and last as the docstring of the class has them
current_time_step_docstring(v) ==
    LET state_value == v.state % 3
    IN  CASE state_value = FIRST -> TimeStep(FIRST, 1, 0, state_value)
          [] state_value = MID -> TimeStep(MID, 1, 0, state_value)
          [] state_value = LAST -> TimeStep(LAST, 0, 1, state_value)

current_time_step(v) ==
    LET state_value == v.state % 3
    IN  CASE state_value = FIRST -> TimeStep(FIRST, 0, 1, state_value)
          [] state_value = MID -> TimeStep(MID, 0, 1, state_value)
          [] state_value = LAST -> TimeStep(LAST, 1, 0, state_value)

\* a reset that starts the statistics anew
TFEnvironmentMock_reset_stats(self, v) ==
    LET v1 == [v EXCEPT !.resets = @ + 1, !.steps = 0, !.episodes = 0]
        v2 == [v1 EXCEPT !.state = self.initial_state]
    IN  [variables |-> v2, ts |-> current_time_step(v2)]

TFEnvironmentMock_reset(self, v) ==
    LET v1 == [v EXCEPT !.resets = @ + 1]
        v2 == [v1 EXCEPT !.state = self.initial_state]
    IN  [variables |-> v2, ts |-> current_time_step(v2)]

\* a step that counts every step
TFEnvironmentMock_step_counts_first(self, v, action) ==
    LET v1 == [v EXCEPT !.state = @ + 1]
        v2 == [v1 EXCEPT !.steps = @ + 1]
        v3 == [v2 EXCEPT !.episodes = IF v1.state % 3 = LAST THEN @ + 1 ELSE @]
    IN  [variables |-> v3, ts |-> current_time_step(v3)]

\* a step that goes back to the initial state after LAST
TFEnvironmentMock_step_restarts(self, v, action) ==
    LET v1 == [v EXCEPT !.state = IF @ % 3 = LAST THEN self.initial_state ELSE @ + 1]
        v2 == [v1 EXCEPT !.steps = IF v1.state % 3 = FIRST THEN @ ELSE @ + 1]
        v3 == [v2 EXCEPT !.episodes = IF v1.state % 3 = LAST THEN @ + 1 ELSE @]
    IN  [variables |-> v3, ts |-> current_time_step(v3)]

\* the action is only a control dependency of the state increment
TFEnvironmentMock_step(self, v, action) ==
    LET v1 == [v EXCEPT !.state = @ + 1]
        v2 == [v1 EXCEPT !.steps = IF v1.state % 3 = FIRST THEN @ ELSE @ + 1]
        v3 == [v2 EXCEPT !.episodes = IF v1.state % 3 = LAST THEN @ + 1 ELSE @]
    IN  [variables |-> v3, ts |-> current_time_step(v3)]

-----------------------------------------------------------------------------
(* The evaluations made on a TFEnvironmentMock: its three ops, and the     *)
(* while_loop of testRunEpisode, whose passes are steps of their own.      *)
(* input is the loop: where it is, its loop variable and the passes made;  *)
(* direct holds the variables as they were before the evaluation, and seen *)
(* counts the evaluations.                                                 *)

InitialStates == 0..MaxInitialState

NoMockSeen == [steps |-> 0, resets |-> 0, reads |-> 0, runs |-> 0]

NoLoop == [pc |-> "idle", t |-> NoTimeStep, n |-> 0]

InitMock ==
    /\ \E i \in InitialStates :
         LET m == NewTFEnvironmentMock(i)
         IN  /\ env = m.variables
             /\ wrapper = m.self
             /\ direct = m.variables
    /\ envEnds = TRUE
    /\ tl = Unused
    /\ rs = Unused
    /\ limited = FALSE
    /\ hist = <<>>
    /\ seen = NoMockSeen
    /\ last = NoCall
    /\ calls = 0
    /\ input = NoLoop

mockUnused == <<envEnds, tl, rs, limited, wrapper>>

\* a read that counts as a step
MockCurrentTimeStep_counted ==
    /\ input.pc = "idle"
    /\ calls < MaxMockCalls
    /\ last' = [method |-> "current_time_step", arg |-> 0, ts |-> current_time_step(env)]
    /\ env' = [env EXCEPT !.steps = @ + 1]
    /\ seen' = [seen EXCEPT !.reads = @ + 1]
    /\ calls' = calls + 1
    /\ direct' = env
    /\ UNCHANGED <<hist, input, mockUnused>>

MockCurrentTimeStep ==
    /\ input.pc = "idle"
    /\ calls < MaxMockCalls
    /\ last' = [method |-> "current_time_step", arg |-> 0, ts |-> current_time_step(env)]
    /\ seen' = [seen EXCEPT !.reads = @ + 1]
    /\ calls' = calls + 1
    /\ direct' = env
    /\ UNCHANGED <<env, hist, input, mockUnused>>

MockReset ==
    /\ input.pc = "idle"
    /\ calls < MaxMockCalls
    /\ LET r == TFEnvironmentMock_reset(wrapper, env)
       IN  /\ env' = r.variables
           /\ last' = [method |-> "reset", arg |-> 0, ts |-> r.ts]
    /\ hist' = <<>>
    /\ seen' = [seen EXCEPT !.resets = @ + 1]
    /\ calls' = calls + 1
    /\ direct' = env
    /\ UNCHANGED <<input, mockUnused>>

MockStep ==
    /\ input.pc = "idle"
    /\ calls < MaxMockCalls
    /\ \E action \in Actions :
         LET r == TFEnvironmentMock_step(wrapper, env, action)
         IN  /\ env' = r.variables
             /\ last' = [method |-> "step", arg |-> action, ts |-> r.ts]
             /\ hist' = Append(hist, r.ts.step_type)
    /\ seen' = [seen EXCEPT !.steps = @ + 1]
    /\ calls' = calls + 1
    /\ direct' = env
    /\ UNCHANGED <<input, mockUnused>>

\* time_step = tf_env.reset(), the loop variable's first value
EpisodeStart ==
    /\ input.pc = "idle"
    /\ calls < MaxMockCalls
    /\ LET r == TFEnvironmentMock_reset(wrapper, env)
       IN  /\ env' = r.variables
           /\ input' = [pc |-> "loop", t |-> r.ts, n |-> 0]
    /\ hist' = <<>>
    /\ direct' = env
    /\ UNCHANGED <<last, seen, calls, mockUnused>>

\* a body that returns its argument
EpisodeBody_idle ==
    /\ input.pc = "loop"
    /\ ~is_last(input.t)
    /\ UNCHANGED vars

\* c(t) holds: body(t)
EpisodeBody ==
    /\ input.pc = "loop"
    /\ ~is_last(input.t)
    /\ LET r == TFEnvironmentMock_step(wrapper, env, input.t.observation)
       IN  /\ env' = r.variables
           /\ input' = [input EXCEPT !.t = r.ts, !.n = @ + 1]
           /\ hist' = Append(hist, r.ts.step_type)
    /\ UNCHANGED <<last, seen, calls, direct, mockUnused>>

\* c(t) does not hold: the loop returns its variable
EpisodeEnd ==
    /\ input.pc = "loop"
    /\ is_last(input.t)
    /\ last' = [method |-> "run_episode", arg |-> input.n, ts |-> input.t]
    /\ input' = [input EXCEPT !.pc = "idle"]
    /\ seen' = [seen EXCEPT !.runs = @ + 1]
    /\ calls' = calls + 1
    /\ UNCHANGED <<env, hist, direct, mockUnused>>

NextMock ==
    \/ MockCurrentTimeStep
    \/ MockReset
    \/ MockStep
    \/ EpisodeStart
    \/ EpisodeBody
    \/ EpisodeEnd

SpecMock == InitMock /\ [][NextMock]_vars

\* an evaluation that has started runs on
SpecMockFair == SpecMock /\ WF_vars(EpisodeBody) /\ WF_vars(EpisodeEnd)

\* the contents of a time step of the mock
MockTimeStepOK(ts, v) ==
    /\ ts.observation = v.state % 3
    /\ ts.observation = ts.step_type
    /\ (ts.step_type = LAST => ts.reward = 1 /\ ts.discount = 0)
    /\ (ts.step_type # LAST => ts.reward = 0 /\ ts.discount = 1)

C13_MockReset ==
    /\ (input.pc = "idle" /\ last.method = "reset") =>
           /\ env.resets = direct.resets + 1
           /\ env.steps = direct.steps
           /\ env.episodes = direct.episodes
           /\ env.state = wrapper.initial_state
           /\ last.ts = current_time_step([state |-> wrapper.initial_state])
           /\ (wrapper.initial_state = 0 => last.ts = TimeStep(FIRST, 0, 1, 0))
    /\ (input.pc = "idle" /\ seen.steps = 0 /\ seen.runs = 0) =>
           /\ env.resets = seen.resets
           /\ env.steps = 0
           /\ env.episodes = 0

\* a reset after two steps, of which the second ended an episode
C13_Witness ==
    /\ input.pc = "idle"
    /\ last.method = "reset"
    /\ wrapper.initial_state = 0
    /\ direct = [state |-> 2, steps |-> 2, episodes |-> 1, resets |-> 1]
    /\ env = [state |-> 0, steps |-> 2, episodes |-> 1, resets |-> 2]

\* three resets in a row
C13_WitnessThree ==
    /\ seen = [steps |-> 0, resets |-> 3, reads |-> 0, runs |-> 0]
    /\ env.resets = 3

\* C14: an evaluation of step adds one to steps when the time step it returns
\* is MID or LAST and leaves steps alone when it is FIRST; it adds one to
\* episodes exactly when the time step is LAST; it never changes resets.  From
\* the initial state one step gives steps 1 and episodes 0, two steps give
\* steps 2 and episodes 1.
C14_MockStepCounts ==
    /\ (input.pc = "idle" /\ last.method = "step") =>
           /\ env.steps = direct.steps + (IF last.ts.step_type \in {MID, LAST} THEN 1 ELSE 0)
           /\ env.episodes = direct.episodes + (IF last.ts.step_type = LAST THEN 1 ELSE 0)
           /\ env.resets = direct.resets
    /\ (wrapper.initial_state = 0 /\ input.pc = "idle"
            /\ calls = 1 /\ seen.steps = 1) =>
           (env.steps = 1 /\ env.episodes = 0)
    /\ (wrapper.initial_state = 0 /\ input.pc = "idle"
            /\ calls = 2 /\ seen.steps = 2) =>
           (env.steps = 2 /\ env.episodes = 1)

\* two steps from the initial state
C14_Witness ==
    /\ wrapper.initial_state = 0
    /\ input.pc = "idle"
    /\ calls = 2
    /\ seen.steps = 2
    /\ hist = <<MID, LAST>>
    /\ direct.steps = 1 /\ direct.episodes = 0
    /\ env.steps = 2 /\ env.episodes = 1

EpisodeRunOK ==
    /\ (wrapper.initial_state = 0 /\ input.pc = "idle" /\ last.method = "run_episode") =>
           /\ last.arg = 2
           /\ last.ts = TimeStep(LAST, 1, 0, 2)
           /\ env.resets = direct.resets + 1
           /\ env.steps = direct.steps + 2
           /\ env.episodes = direct.episodes + 1
    /\ (wrapper.initial_state = 0 /\ input.pc = "idle"
            /\ seen.steps = 0 /\ seen.resets = 0) =>
           /\ env.resets = seen.runs
           /\ env.steps = 2 * seen.runs
           /\ env.episodes = seen.runs

\* C16: a run of an episode (reset, then step while the time step is not LAST)
\* always ends, after exactly 2 steps, with a LAST time step of observation 2;
\* it adds 1 to resets, 2 to steps and 1 to episodes, so that after k runs and
\* nothing else resets is k, steps 2k and episodes k.
C16_MockRunEpisode == []EpisodeRunOK /\ ((input.pc = "loop") ~> (input.pc = "idle"))

\* the second of two runs is over
C16_Witness ==
    /\ wrapper.initial_state = 0
    /\ input.pc = "idle"
    /\ last.method = "run_episode"
    /\ seen = [steps |-> 0, resets |-> 0, reads |-> 0, runs |-> 2]
    /\ direct = [state |-> 2, steps |-> 2, episodes |-> 1, resets |-> 1]
    /\ env = [state |-> 2, steps |-> 4, episodes |-> 2, resets |-> 2]

-----------------------------------------------------------------------------
(* PPOAgent of ppo_agent.py, as ppo_agent_test.py uses it.  The train step *)
(* counter is the global step; env holds it, wrapper the agent's           *)
(* num_epochs and whether build_train_op is the mock of testTrain, and     *)
(* direct the counter before the last evaluation.                          *)

NewPPOAgent(num_epochs, mocked) == [num_epochs |-> num_epochs, mocked |-> mocked]

\* lambda *_, **__: (counter.assign_add(1), [zero] * 5)
mock_build_train_op(v) == [v EXCEPT !.train_step = @ + 1]

\* the update of the op that build_train_op returns
PPOAgent_build_train_op(v) == [v EXCEPT !.train_step = @ + 1]

build_train_op(self, v) ==
    IF self.mocked THEN mock_build_train_op(v) ELSE PPOAgent_build_train_op(v)

RECURSIVE Epochs(_, _, _)
Epochs(self, v, n) ==
    IF n = 0 THEN v ELSE Epochs(self, build_train_op(self, v), n - 1)

\* a train that stops one epoch early
PPOAgent_train_short(self, v) == Epochs(self, v, self.num_epochs - 1)

\* train(experience): the updates of num_epochs epochs, one after the other
PPOAgent_train(self, v) == Epochs(self, v, self.num_epochs)

InitTrain ==
    /\ env = [train_step |-> 0]
    /\ direct = [train_step |-> 0]
    /\ \E n \in 1..MaxEpochs, mocked \in BOOLEAN : wrapper = NewPPOAgent(n, mocked)
    /\ envEnds = TRUE
    /\ tl = Unused
    /\ rs = Unused
    /\ limited = FALSE
    /\ hist = <<>>
    /\ seen = [train |-> 0, build_train_op |-> 0]
    /\ last = NoCall
    /\ calls = 0
    /\ input = Unused

trainUnused == <<envEnds, tl, rs, limited, hist, wrapper, input>>

\* sess.run(train_op), train_op = agent.train(experience)
RunTrain ==
    /\ calls < MaxTrainCalls
    /\ env' = PPOAgent_train(wrapper, env)
    /\ direct' = env
    /\ last' = [method |-> "train", arg |-> wrapper.num_epochs, ts |-> NoTimeStep]
    /\ seen' = [seen EXCEPT !.train = @ + 1]
    /\ calls' = calls + 1
    /\ UNCHANGED trainUnused

\* self.evaluate(train_op), train_op built by agent.build_train_op(...)
RunBuildTrainOp ==
    /\ calls < MaxTrainCalls
    /\ env' = build_train_op(wrapper, env)
    /\ direct' = env
    /\ last' = [method |-> "build_train_op", arg |-> 1, ts |-> NoTimeStep]
    /\ seen' = [seen EXCEPT !.build_train_op = @ + 1]
    /\ calls' = calls + 1
    /\ UNCHANGED trainUnused

NextTrain == RunTrain \/ RunBuildTrainOp

SpecTrain == InitTrain /\ [][NextTrain]_vars

\* C17: one run of the train op of build_train_op adds exactly 1 to the train
\* step counter, and one run of the op of train(experience) makes the update
\* of build_train_op exactly num_epochs times: the counter goes up by
\* num_epochs, from 0 to num_epochs in the first run.
C17_TrainStepProgression ==
    /\ last.method = "build_train_op" => env.train_step = direct.train_step + 1
    /\ last.method = "train" =>
           env.train_step = direct.train_step + wrapper.num_epochs
    /\ (calls = 1 /\ last.method = "train") => env.train_step = wrapper.num_epochs
    /\ env.train_step = seen.build_train_op + wrapper.num_epochs * seen.train

\* the first run of train with five epochs and the mocked build_train_op
C17_Witness ==
    /\ wrapper = NewPPOAgent(5, TRUE)
    /\ calls = 1
    /\ last.method = "train"
    /\ direct.train_step = 0
    /\ env.train_step = 5

-----------------------------------------------------------------------------
(* Rational numbers, for the float32 values of the PPO agent: a pair of    *)
(* integers in lowest terms with a positive denominator.                   *)

RECURSIVE Gcd(_, _)
Gcd(a, b) == IF b = 0 THEN a ELSE Gcd(b, a % b)

Abs(x) == IF x < 0 THEN 0 - x ELSE x

Rat(num, den) ==
    LET g == Gcd(Abs(num), Abs(den))
        s == IF den < 0 THEN 0 - 1 ELSE 1
    IN  [num |-> (s * num) \div g, den |-> (s * den) \div g]

RatMul(a, b) ==
    LET x == Rat(a.num, b.den)
        y == Rat(b.num, a.den)
    IN  Rat(x.num * y.num, x.den * y.den)

RatDiv(a, b) == RatMul(a, Rat(b.den, b.num))

RatAdd(a, b) ==
    LET g == Gcd(a.den, b.den)
    IN  Rat(a.num * (b.den \div g) + b.num * (a.den \div g), a.den * (b.den \div g))

RatNeg(a) == [num |-> 0 - a.num, den |-> a.den]

RatSub(a, b) == RatAdd(a, RatNeg(b))

RatLess(a, b) == RatSub(a, b).num < 0

Whole(n) == Rat(n, 1)

-----------------------------------------------------------------------------
(* The adaptive KL penalty of PPOAgent: a coefficient beta that the agent  *)
(* keeps in a variable and update_adaptive_kl_beta adapts to the mean KL   *)
(* divergence of the data.  env holds beta, wrapper the agent's            *)
(* parameters, direct beta before the last evaluation.                     *)

NewKlAgent(initial_adaptive_kl_beta, adaptive_kl_target, adaptive_kl_tolerance) ==
    [self |-> [adaptive_kl_target |-> adaptive_kl_target,
               adaptive_kl_tolerance |-> adaptive_kl_tolerance],
     variables |-> [adaptive_kl_beta |-> initial_adaptive_kl_beta]]

RECURSIVE RatSum(_)
RatSum(xs) == IF xs = <<>> THEN Whole(0) ELSE RatAdd(xs[1], RatSum(Tail(xs)))

reduce_mean(xs) == RatDiv(RatSum(xs), Whole(Len(xs)))

\* an update that only ever raises beta
update_adaptive_kl_beta_raise(self, v, kl_divergence) ==
    LET mean_kl == reduce_mean(kl_divergence)
        above == RatLess(RatMul(self.adaptive_kl_target,
                                RatAdd(Whole(1), self.adaptive_kl_tolerance)), mean_kl)
        factor == IF above THEN Rat(3, 2) ELSE Whole(1)
        new_beta == RatMul(v.adaptive_kl_beta, factor)
    IN  [variables |-> [v EXCEPT !.adaptive_kl_beta = new_beta], result |-> new_beta]

update_adaptive_kl_beta(self, v, kl_divergence) ==
    LET mean_kl == reduce_mean(kl_divergence)
        below == RatLess(mean_kl, RatMul(self.adaptive_kl_target,
                                         RatSub(Whole(1), self.adaptive_kl_tolerance)))
        above == RatLess(RatMul(self.adaptive_kl_target,
                                RatAdd(Whole(1), self.adaptive_kl_tolerance)), mean_kl)
        factor == IF below THEN Rat(2, 3) ELSE IF above THEN Rat(3, 2) ELSE Whole(1)
        new_beta == RatMul(v.adaptive_kl_beta, factor)
    IN  [variables |-> [v EXCEPT !.adaptive_kl_beta = new_beta], result |-> new_beta]

adaptive_kl_loss(self, v, kl_divergence) ==
    RatMul(v.adaptive_kl_beta, reduce_mean(kl_divergence))

\* the values fed for kl_divergence: those of the tests and those around the
\* two bounds target * (1 -+ tolerance)
KlValues == {1, 4, 5, 10, 15, 16, 100}

InitKl ==
    /\ LET a == NewKlAgent(Whole(1), Whole(10), Rat(1, 2))
       IN  /\ env = a.variables
           /\ direct = a.variables
           /\ wrapper = a.self
    /\ envEnds = TRUE
    /\ tl = Unused
    /\ rs = Unused
    /\ limited = FALSE
    /\ hist = <<>>
    /\ seen = Unused
    /\ last = [method |-> "none", arg |-> 0, result |-> Whole(0)]
    /\ calls = 0
    /\ input = Unused

klUnused == <<envEnds, tl, rs, limited, seen, wrapper, input>>

\* sess.run(update, feed_dict={kl_divergence: [kl]})
RunUpdateAdaptiveKlBeta ==
    /\ calls < MaxKlCalls
    /\ \E kl \in KlValues :
         LET r == update_adaptive_kl_beta(wrapper, env, <<Whole(kl)>>)
         IN  /\ env' = r.variables
             /\ last' = [method |-> "update_adaptive_kl_beta", arg |-> kl,
                         result |-> r.result]
             /\ hist' = Append(hist, kl)
    /\ direct' = env
    /\ calls' = calls + 1
    /\ UNCHANGED klUnused

\* sess.run(loss, feed_dict={kl_divergence: [kl]})
RunAdaptiveKlLoss ==
    /\ calls < MaxKlCalls
    /\ \E kl \in KlValues :
         last' = [method |-> "adaptive_kl_loss", arg |-> kl,
                  result |-> adaptive_kl_loss(wrapper, env, <<Whole(kl)>>)]
    /\ direct' = env
    /\ calls' = calls + 1
    /\ UNCHANGED <<env, hist, klUnused>>

NextKl == RunUpdateAdaptiveKlBeta \/ RunAdaptiveKlLoss

SpecKl == InitKl /\ [][NextKl]_vars

KlLossOf(v, kl) == adaptive_kl_loss(wrapper, v, <<Whole(kl)>>)

-----------------------------------------------------------------------------
(* PPOAgent.compute_advantages.  rewards, returns and discounts are        *)
(* [batch, time] arrays, sequences of rows of equal length; a row of       *)
(* value_preds has one more entry, the value of the final time step.       *)

\* value_preds[:, :-1]
DropLast(row) == [t \in 1..(Len(row) - 1) |-> row[t]]

RowSub(a, b) == [t \in 1..Len(a) |-> RatSub(a[t], b[t])]

\* a scan in which the discount does not reach the advantage carried back
RECURSIVE gae_scan_nodiscount(_, _, _, _, _, _)
gae_scan_nodiscount(t, rewards, discounts, values, lambda_value, advantages) ==
    IF t = 0 THEN advantages
    ELSE LET carried == IF advantages = <<>> THEN Whole(0) ELSE advantages[1]
             delta == RatSub(RatAdd(rewards[t], RatMul(discounts[t], values[t + 1])),
                             values[t])
             advantage == RatAdd(delta, RatMul(lambda_value, carried))
         IN  CHOOSE result \in
                 {gae_scan_nodiscount(t - 1, rewards, discounts, values, lambda_value, a) :
                      a \in {<<advantage>> \o advantages}} : TRUE

\* the scan of a row from its last time step back to time step t: advantages
\* are those of the time steps after t, and the temporal difference of t is
\* added to the first of them, weighted by lambda times the discount of t.
\* (The advantages of t and after are a, a value, when the scan goes on.)
RECURSIVE gae_scan(_, _, _, _, _, _)
gae_scan(t, rewards, discounts, values, lambda_value, advantages) ==
    IF t = 0 THEN advantages
    ELSE LET carried == IF advantages = <<>> THEN Whole(0) ELSE advantages[1]
             delta == RatSub(RatAdd(rewards[t], RatMul(discounts[t], values[t + 1])),
                             values[t])
             advantage == RatAdd(delta, RatMul(RatMul(lambda_value, discounts[t]), carried))
         IN  CHOOSE result \in
                 {gae_scan(t - 1, rewards, discounts, values, lambda_value, a) :
                      a \in {<<advantage>> \o advantages}} : TRUE

compute_advantages(self, rewards, returns, discounts, value_preds) ==
    IF self.use_gae
    THEN [b \in 1..Len(rewards) |->
             gae_scan(Len(rewards[b]), rewards[b], discounts[b], value_preds[b],
                      self.lambda_value, <<>>)]
    ELSE [b \in 1..Len(returns) |-> RowSub(returns[b], DropLast(value_preds[b]))]

\* [x] * n
Filled(x, n) == [t \in 1..n |-> x]

Decimals(row, scale) == [t \in 1..Len(row) |-> Rat(row[t], scale)]

\* rewards, discounts and value_preds of the two tests of compute_advantages
TestRewards == Filled(Filled(Whole(1), 9), 2)
TestDiscounts == Filled(Decimals(<<10, 10, 10, 10, 0, 9, 9, 9, 0>>, 10), 2)
TestValuePreds == Filled(Filled(Whole(3), 10), 2)

\* returns of testComputeAdvantagesNoGae
TestReturnsNoGae ==
    <<Decimals(<<5000, 4000, 3000, 2000, 1000, 3439, 2710, 1900, 1000>>, 1000),
      Decimals(<<3000, 4000, 7000, 2000, 0 - 1000, 5439, 2710, 0 - 2900, 1000>>, 1000)>>

\* returns of testComputeAdvantagesWithGae
TestReturnsGae ==
    Filled(Decimals(<<5000, 4000, 3000, 2000, 1000, 3439, 2710, 1900, 1000>>, 1000), 2)

\* gae_vals of testComputeAdvantagesWithGae
TestGaeVals ==
    Filled(Decimals(<<208086250, 113775000, 14500000, 0 - 90000000, 0 - 200000000,
                      56016475, 0 - 16355000, 0 - 101000000, 0 - 200000000>>,
                    100000000), 2)

TestInputs ==
    {[self |-> [use_gae |-> FALSE, lambda_value |-> Rat(95, 100)],
      rewards |-> TestRewards, returns |-> TestReturnsNoGae,
      discounts |-> TestDiscounts, value_preds |-> TestValuePreds],
     [self |-> [use_gae |-> TRUE, lambda_value |-> Rat(95, 100)],
      rewards |-> TestRewards, returns |-> TestReturnsGae,
      discounts |-> TestDiscounts, value_preds |-> TestValuePreds]}

\* batches of one row of up to MaxSteps time steps; what the branch taken
\* does not read is held fixed
AdvRewards == {Whole(0), Whole(1)}
AdvDiscounts == {Whole(0), Rat(1, 2), Whole(1)}
AdvValues == {Whole(0), Whole(3)}
AdvLambdas == {Rat(1, 2), Whole(1)}

GaeInputs ==
    UNION {{[self |-> [use_gae |-> TRUE, lambda_value |-> l],
             rewards |-> <<r>>, returns |-> <<Filled(Whole(0), n)>>,
             discounts |-> <<d>>, value_preds |-> <<v>>] :
                l \in AdvLambdas, r \in [1..n -> AdvRewards],
                d \in [1..n -> AdvDiscounts], v \in [1..(n + 1) -> AdvValues]} :
           n \in 1..MaxSteps}

NoGaeInputs ==
    UNION {{[self |-> [use_gae |-> FALSE, lambda_value |-> Whole(1)],
             rewards |-> <<Filled(Whole(1), n)>>, returns |-> <<r>>,
             discounts |-> <<Filled(Whole(1), n)>>, value_preds |-> <<v>>] :
                r \in [1..n -> AdvRewards], v \in [1..(n + 1) -> AdvValues]} :
           n \in 1..MaxSteps}

InitAdvantages ==
    /\ input \in TestInputs \cup GaeInputs \cup NoGaeInputs
    /\ wrapper = input.self
    /\ env = Unused
    /\ direct = Unused
    /\ envEnds = TRUE
    /\ tl = Unused
    /\ rs = Unused
    /\ limited = FALSE
    /\ hist = <<>>
    /\ seen = Unused
    /\ last = [method |-> "none", arg |-> 0, result |-> <<>>]
    /\ calls = 0

ComputeAdvantages ==
    /\ calls < MaxWrapCalls
    /\ last' = [method |-> "compute_advantages", arg |-> 0,
                result |-> compute_advantages(wrapper, input.rewards, input.returns,
                                              input.discounts, input.value_preds)]
    /\ calls' = calls + 1
    /\ UNCHANGED <<env, envEnds, tl, rs, limited, hist, seen, wrapper, input, direct>>

NextAdvantages == ComputeAdvantages

SpecAdvantages == InitAdvantages /\ [][NextAdvantages]_vars

\* adv[t] of a row of the result, 0 past its end
AdvAt(row, t) == IF t > Len(row) THEN Whole(0) ELSE row[t]

\* C19: compute_advantages, value_preds having one more entry per row than
\* the other arrays: without GAE the result is returns - value_preds[:, :-1];
\* with GAE it is adv[t] = delta[t] + lambda * discount[t] * adv[t+1], where
\* delta[t] = reward[t] + discount[t] * value[t+1] - value[t] and adv is 0 past
\* the end, so that adv[t] = reward[t] - value[t] wherever discount[t] is 0,
\* whatever comes later; on the data of testComputeAdvantagesWithGae this is
\* the test's gae_vals.
C19_ComputeAdvantages ==
    last.method = "compute_advantages" =>
        /\ Len(last.result) = Len(input.rewards)
        /\ \A b \in 1..Len(last.result) :
             LET adv == last.result[b]
                 r == input.rewards[b]
                 d == input.discounts[b]
                 v == input.value_preds[b]
             IN  /\ Len(adv) = Len(r)
                 /\ Len(v) = Len(r) + 1
                 /\ ~wrapper.use_gae =>
                        \A t \in 1..Len(adv) : adv[t] = RatSub(input.returns[b][t], v[t])
                 /\ wrapper.use_gae =>
                        \A t \in 1..Len(adv) :
                            /\ adv[t] = RatAdd(RatSub(RatAdd(r[t], RatMul(d[t], v[t + 1])), v[t]),
                                               RatMul(RatMul(wrapper.lambda_value, d[t]),
                                                      AdvAt(adv, t + 1)))
                            /\ d[t] = Whole(0) => adv[t] = RatSub(r[t], v[t])
        /\ (wrapper.use_gae /\ input \in TestInputs) => last.result = TestGaeVals

\* the advantages of testComputeAdvantagesWithGae
C19_Witness ==
    /\ last.method = "compute_advantages"
    /\ wrapper.use_gae
    /\ input \in TestInputs
    /\ last.result[1][1] = Rat(20808625, 10000000)
    /\ last.result[1][5] = Whole(0 - 2)
    /\ last.result[2][6] = Rat(56016475, 100000000)

\* the advantages of testComputeAdvantagesNoGae
C19_WitnessNoGae ==
    /\ last.method = "compute_advantages"
    /\ ~wrapper.use_gae
    /\ input \in TestInputs
    /\ last.result[2][8] = Rat(0 - 59, 10)
    /\ Len(last.result[2]) = 9

-----------------------------------------------------------------------------
(* The losses of PPOAgent.build_train_op.  A batch is a sequence of time   *)
(* steps; of a time step the model keeps the observation and the return,   *)
(* from which the value estimation loss is computed with the value net of  *)
(* the test, and the terms the time step adds to the policy gradient loss  *)
(* and to the entropy regularization loss, which are numbers drawn with    *)
(* the batch.  valid_mask has a 1 or a 0 per time step.                    *)

\* DummyValueNet: Dense(1) with kernel [2, 1] and bias [5]
DummyValueNet(observation) ==
    RatAdd(RatAdd(RatMul(Whole(2), observation[1]), observation[2]), Whole(5))

Masked(terms, valid_mask) == [t \in 1..Len(terms) |-> RatMul(terms[t], valid_mask[t])]

Max1(n) == IF n < 1 THEN 1 ELSE n

\* a mean over the valid time steps only
masked_reduce_mean_valid(terms, valid_mask) ==
    RatDiv(RatSum(Masked(terms, valid_mask)),
           Whole(Max1(RatSum(valid_mask).num)))

\* tf.reduce_mean(terms * valid_mask)
masked_reduce_mean(terms, valid_mask) == reduce_mean(Masked(terms, valid_mask))

squared_difference(a, b) == RatMul(RatSub(a, b), RatSub(a, b))

value_estimation_loss(self, batch, valid_mask) ==
    RatMul(self.value_pred_loss_coef,
           masked_reduce_mean([t \in 1..Len(batch) |->
                                  squared_difference(batch[t].return,
                                                     DummyValueNet(batch[t].observation))],
                              valid_mask))

policy_gradient_loss(self, batch, valid_mask) ==
    masked_reduce_mean([t \in 1..Len(batch) |-> batch[t].policy_gradient], valid_mask)

entropy_regularization_loss(self, batch, valid_mask) ==
    masked_reduce_mean([t \in 1..Len(batch) |-> batch[t].entropy], valid_mask)

\* the losses of build_train_op and their total, which its train op returns
build_train_op_losses(self, batch, valid_mask, l2_regularization_loss, kl_penalty_loss) ==
    LET pg == policy_gradient_loss(self, batch, valid_mask)
        ve == value_estimation_loss(self, batch, valid_mask)
        ent == entropy_regularization_loss(self, batch, valid_mask)
    IN  [policy_gradient_loss |-> pg,
         value_estimation_loss |-> ve,
         l2_regularization_loss |-> l2_regularization_loss,
         entropy_reg_loss |-> ent,
         kl_penalty_loss |-> kl_penalty_loss,
         total_loss |-> RatAdd(RatAdd(RatAdd(RatAdd(pg, ve), l2_regularization_loss), ent),
                               kl_penalty_loss)]

\* the two time steps of testBuildTrainOp, observations [1, 2] and [3, 4] with
\* returns 1.9 and 1.0, and a third one
TimeSteps ==
    {[observation |-> <<Whole(1), Whole(2)>>, return |-> Rat(19, 10),
      policy_gradient |-> Rat(0 - 1, 10), entropy |-> Rat(0 - 3, 10)],
     [observation |-> <<Whole(3), Whole(4)>>, return |-> Whole(1),
      policy_gradient |-> Rat(1, 20), entropy |-> Rat(0 - 2, 5)],
     [observation |-> <<Whole(0), Whole(0)>>, return |-> Whole(5),
      policy_gradient |-> Whole(2), entropy |-> Whole(0)]}

\* observations, returns and valid_mask of testBuildTrainOp
TestBatch ==
    LET a == [observation |-> <<Whole(1), Whole(2)>>, return |-> Rat(19, 10),
              policy_gradient |-> Rat(0 - 1, 10), entropy |-> Rat(0 - 3, 10)]
        b == [observation |-> <<Whole(3), Whole(4)>>, return |-> Whole(1),
              policy_gradient |-> Rat(1, 20), entropy |-> Rat(0 - 2, 5)]
    IN  <<a, b, a, b>>

TestValidMask == <<Whole(1), Whole(1), Whole(0), Whole(0)>>

InitLosses ==
    /\ \E n \in 1..MaxBatchSteps :
         input \in [batch : [1..n -> TimeSteps],
                    valid_mask : [1..n -> {Whole(0), Whole(1)}],
                    l2_regularization_loss : {Rat(12, 10000)},
                    kl_penalty_loss : {Whole(0), Whole(1)}]
    /\ wrapper = [value_pred_loss_coef |-> Whole(1)]
    /\ env = [train_step |-> 0]
    /\ direct = [train_step |-> 0]
    /\ envEnds = TRUE
    /\ tl = Unused
    /\ rs = Unused
    /\ limited = FALSE
    /\ hist = <<>>
    /\ seen = Unused
    /\ last = [method |-> "none", arg |-> 0, result |-> Unused]
    /\ calls = 0

\* self.evaluate([train_op, policy_gradient_loss, ...])
RunBuildTrainOpLosses ==
    /\ calls < MaxWrapCalls
    /\ last' = [method |-> "build_train_op", arg |-> 0,
                result |-> build_train_op_losses(wrapper, input.batch, input.valid_mask,
                                                 input.l2_regularization_loss,
                                                 input.kl_penalty_loss)]
    /\ env' = PPOAgent_build_train_op(env)
    /\ direct' = env
    /\ calls' = calls + 1
    /\ UNCHANGED <<envEnds, tl, rs, limited, hist, seen, wrapper, input>>

NextLosses == RunBuildTrainOpLosses

SpecLosses == InitLosses /\ [][NextLosses]_vars

\* the sum of the terms of the valid time steps among the first n
RECURSIVE SumValid(_, _, _)
SumValid(terms, valid_mask, n) ==
    IF n = 0 THEN Whole(0)
    ELSE IF valid_mask[n] = Whole(1)
         THEN RatAdd(SumValid(terms, valid_mask, n - 1), terms[n])
         ELSE SumValid(terms, valid_mask, n - 1)

SquaredErrors(batch) ==
    [t \in 1..Len(batch) |->
        RatMul(RatSub(batch[t].return, DummyValueNet(batch[t].observation)),
               RatSub(batch[t].return, DummyValueNet(batch[t].observation)))]

PolicyGradientTerms(batch) == [t \in 1..Len(batch) |-> batch[t].policy_gradient]

EntropyTerms(batch) == [t \in 1..Len(batch) |-> batch[t].entropy]

\* the first k time steps are valid and the others are not
ValidPrefix(valid_mask, k) ==
    \A t \in 1..Len(valid_mask) : valid_mask[t] = (IF t <= k THEN Whole(1) ELSE Whole(0))

Ones(k) == [t \in 1..k |-> Whole(1)]

Prefix(batch, k) == [t \in 1..k |-> batch[t]]

\* C20: in build_train_op the time steps whose valid_mask is 0 add nothing to
\* the policy gradient, value estimation and entropy losses, and the mean is
\* taken over all the time steps of the batch: each loss is the sum of the
\* terms of the valid time steps divided by the number of time steps, so that
\* a batch of n time steps of which the last n - k are masked has k/n of the
\* loss of its first k time steps alone (2/4 for 4 time steps with the last 2
\* masked; 123.205 * 2 / 4 is the value estimation loss of the test); the
\* total loss is the sum of the policy gradient, value estimation, L2,
\* entropy and KL penalty losses.
C20_MaskedLosses ==
    last.method = "build_train_op" =>
        LET n == Len(input.batch)
            m == input.valid_mask
            l == last.result
        IN  /\ l.policy_gradient_loss
                   = RatDiv(SumValid(PolicyGradientTerms(input.batch), m, n), Whole(n))
            /\ l.value_estimation_loss
                   = RatDiv(SumValid(SquaredErrors(input.batch), m, n), Whole(n))
            /\ l.entropy_reg_loss
                   = RatDiv(SumValid(EntropyTerms(input.batch), m, n), Whole(n))
            /\ \A k \in 1..n :
                   ValidPrefix(m, k) =>
                       LET alone == build_train_op_losses(wrapper, Prefix(input.batch, k),
                                        Ones(k), input.l2_regularization_loss,
                                        input.kl_penalty_loss)
                       IN  /\ l.policy_gradient_loss
                                  = RatMul(Rat(k, n), alone.policy_gradient_loss)
                           /\ l.value_estimation_loss
                                  = RatMul(Rat(k, n), alone.value_estimation_loss)
                           /\ l.entropy_reg_loss
                                  = RatMul(Rat(k, n), alone.entropy_reg_loss)
            /\ l.total_loss
                   = RatAdd(l.policy_gradient_loss,
                            RatAdd(l.value_estimation_loss,
                                   RatAdd(l.l2_regularization_loss,
                                          RatAdd(l.entropy_reg_loss, l.kl_penalty_loss))))
            /\ (input.batch = TestBatch /\ m = TestValidMask) =>
                   l.value_estimation_loss = RatMul(Rat(123205, 1000), Rat(2, 4))

\* the batch of testBuildTrainOp: four time steps, the last two masked
C20_Witness ==
    /\ last.method = "build_train_op"
    /\ input.batch = TestBatch
    /\ input.valid_mask = TestValidMask
    /\ input.kl_penalty_loss = Whole(0)
    /\ last.result.value_estimation_loss = Rat(616025, 10000)
    /\ last.result.policy_gradient_loss = Rat(0 - 1, 80)
    /\ env.train_step = 1

-----------------------------------------------------------------------------
(* One evaluation of a graph on a TFEnvironmentMock, op by op.  The ops of *)
(* a graph run in any order that its data and control dependencies allow.  *)
(* The graph "current_step" is that of testCurrentStep, fetching           *)
(* [time_step, next_time_step] with next_time_step = step(action); the     *)
(* graph "two_steps" is that of                                            *)
(* testFirstObservationIsPreservedAfterTwoSteps, fetching the time steps   *)
(* of step(1) and step(2).  input is the evaluation: the graph, the ops    *)
(* that have run and the time steps read; direct holds the variables at    *)
(* its start and hist the graphs evaluated so far.                         *)

Graphs == {"current_step", "two_steps"}

Ops(graph) ==
    IF graph = "current_step"
    THEN {"read0", "assign1", "steps1", "episodes1", "read1"}
    ELSE {"assign1", "steps1", "episodes1", "read1",
          "assign2", "steps2", "episodes2", "read2"}

\* the ops of step(action): what the with tf.control_dependencies of step
\* put before each
StepDeps(op) ==
    CASE op \in {"steps1", "episodes1"} -> {"assign1"}
      [] op = "read1" -> {"steps1", "episodes1"}
      [] op \in {"steps2", "episodes2"} -> {"assign2"}
      [] op = "read2" -> {"steps2", "episodes2"}
      [] OTHER -> {}

\* the graphs without the tests' control dependencies of the action
Deps_free(graph, op) == StepDeps(op)

\* with tf.control_dependencies([time_step.step_type]): action = ...
Deps(graph, op) ==
    CASE graph = "current_step" /\ op = "assign1" -> {"read0"}
      [] graph = "two_steps" /\ op = "assign2" -> {"read1"}
      [] OTHER -> StepDeps(op)

\* self._state.assign_add(1)
state_assign(v) == [v EXCEPT !.state = @ + 1]

\* tf.cond(tf.equal(tf.mod(state_value, 3), FIRST), self.steps.value, ...)
increase_steps(v) == [v EXCEPT !.steps = IF v.state % 3 = FIRST THEN @ ELSE @ + 1]

\* tf.cond(tf.equal(tf.mod(state_value, 3), LAST), ..., self.episodes.value)
increase_episodes(v) == [v EXCEPT !.episodes = IF v.state % 3 = LAST THEN @ + 1 ELSE @]

NoFetch == [read0 |-> NoTimeStep, read1 |-> NoTimeStep, read2 |-> NoTimeStep]

NoEvaluation == [pc |-> "idle", graph |-> "none", done |-> {}, fetched |-> NoFetch]

InitOrder ==
    /\ \E i \in InitialStates :
         LET m == NewTFEnvironmentMock(i)
         IN  /\ env = m.variables
             /\ wrapper = m.self
             /\ direct = m.variables
    /\ envEnds = TRUE
    /\ tl = Unused
    /\ rs = Unused
    /\ limited = FALSE
    /\ hist = <<>>
    /\ seen = Unused
    /\ last = [method |-> "none", first |-> NoTimeStep, next |-> NoTimeStep]
    /\ calls = 0
    /\ input = NoEvaluation

orderUnused == <<envEnds, tl, rs, limited, seen, wrapper>>

\* self.evaluate([...]) begins
EvaluateStart ==
    /\ input.pc = "idle"
    /\ calls < MaxGraphRuns
    /\ \E graph \in Graphs :
         input' = [pc |-> "running", graph |-> graph, done |-> {}, fetched |-> NoFetch]
    /\ direct' = env
    /\ UNCHANGED <<env, last, hist, calls, orderUnused>>

\* an op whose dependencies have run runs
RunOp ==
    /\ input.pc = "running"
    /\ \E op \in Ops(input.graph) \ input.done :
         /\ Deps(input.graph, op) \subseteq input.done
         /\ env' = CASE op \in {"assign1", "assign2"} -> state_assign(env)
                     [] op \in {"steps1", "steps2"} -> increase_steps(env)
                     [] op \in {"episodes1", "episodes2"} -> increase_episodes(env)
                     [] OTHER -> env
         /\ input' = [input EXCEPT
                          !.done = @ \cup {op},
                          !.fetched = IF op \in {"read0", "read1", "read2"}
                                      THEN [@ EXCEPT ![op] = current_time_step(env)]
                                      ELSE @]
    /\ UNCHANGED <<last, hist, calls, direct, orderUnused>>

\* every op has run: the evaluation returns what it fetched
EvaluateEnd ==
    /\ input.pc = "running"
    /\ input.done = Ops(input.graph)
    /\ last' = IF input.graph = "current_step"
               THEN [method |-> input.graph, first |-> input.fetched.read0,
                     next |-> input.fetched.read1]
               ELSE [method |-> input.graph, first |-> input.fetched.read1,
                     next |-> input.fetched.read2]
    /\ hist' = Append(hist, input.graph)
    /\ input' = [input EXCEPT !.pc = "idle"]
    /\ calls' = calls + 1
    /\ UNCHANGED <<env, direct, orderUnused>>

NextOrder == EvaluateStart \/ RunOp \/ EvaluateEnd

SpecOrder == InitOrder /\ [][NextOrder]_vars

\* C21: when the action of step() has a control dependency on
\* current_time_step(), the time step is read before the state is
\* incremented in every evaluation, so that the pair fetched has
\* next_time_step.observation = (time_step.observation + 1) mod 3, and the
\* evaluations one after the other give (FIRST, MID), then (MID, LAST); a time
\* step fetched from one step() keeps its own observation when a second
\* step(), dependent on it, runs in the same evaluation.
C21_MockOrdering ==
    (input.pc = "idle" /\ last.method # "none") =>
        /\ last.next.observation = (last.first.observation + 1) % 3
        /\ last.method = "current_step" =>
               /\ last.first = current_time_step(direct)
               /\ last.next = current_time_step(state_assign(direct))
        /\ last.method = "two_steps" =>
               /\ last.first = current_time_step(state_assign(direct))
               /\ last.next = current_time_step(state_assign(state_assign(direct)))
        /\ (wrapper.initial_state = 0 /\ hist = <<"current_step">>) =>
               (last.first.step_type = FIRST /\ last.next.step_type = MID)
        /\ (wrapper.initial_state = 0 /\ hist = <<"current_step", "current_step">>) =>
               (last.first.step_type = MID /\ last.next.step_type = LAST)
        /\ (wrapper.initial_state = 0 /\ hist = <<"two_steps">>) =>
               last.first.observation = 1

\* the second evaluation of testCurrentStep
C21_Witness ==
    /\ input.pc = "idle"
    /\ wrapper.initial_state = 0
    /\ hist = <<"current_step", "current_step">>
    /\ last.first = TimeStep(MID, 0, 1, 1)
    /\ last.next = TimeStep(LAST, 1, 0, 2)
    /\ env = [state |-> 2, steps |-> 2, episodes |-> 1, resets |-> 0]

\* the evaluation of testFirstObservationIsPreservedAfterTwoSteps
C21_WitnessTwoSteps ==
    /\ input.pc = "idle"
    /\ wrapper.initial_state = 0
    /\ hist = <<"two_steps">>
    /\ last.first.observation = 1
    /\ last.next.observation = 2
    /\ env.state = 2

-----------------------------------------------------------------------------
\* what the last evaluation has read or returned, against the variables
\* before it
CurrentTimeStepReadOnly ==
    input.pc = "idle" =>
        /\ last.method = "current_time_step" =>
               /\ env = direct
               /\ last.ts = current_time_step(env)
        /\ last.method = "step" =>
               \A action \in Actions :
                   TFEnvironmentMock_step(wrapper, direct, action) =
                       [variables |-> env, ts |-> last.ts]

\* C22: current_time_step() only reads: an evaluation of it, in any state,
\* leaves state, resets, steps and episodes as they were, and returns the
\* time step that the evaluation before it returned as long as no step() or
\* reset() has run in between; the time step and the variables that step()
\* produces are the same for every value of the action.
C22_MockReadOnly ==
    /\ []CurrentTimeStepReadOnly
    /\ [][(/\ last.method = "current_time_step"
           /\ last'.method = "current_time_step"
           /\ calls' = calls + 1)
              => (env' = env /\ last'.ts = last.ts)]_vars

\* two reads in a row after a step
C22_Witness ==
    /\ input.pc = "idle"
    /\ wrapper.initial_state = 0
    /\ last.method = "current_time_step"
    /\ last.ts = TimeStep(MID, 0, 1, 1)
    /\ seen = [steps |-> 1, resets |-> 0, reads |-> 2, runs |-> 0]
    /\ calls = 3
    /\ env = [state |-> 1, steps |-> 1, episodes |-> 0, resets |-> 0]
    /\ direct = env

====
